---- MODULE Spec2Model ----
(***************************************************************************)
(* A model of the claude-code-manager services:                            *)
(*   HooksService          hook CRUD on the two settings files             *)
(*   FileOperationsService move / create / delete / rename of artifacts    *)
(*   FileDiscoveryService  discovery of memory, command and skill files    *)
(* Three specifications share the variables: Spec (hook editing), SpecFs   *)
(* (file operations with the command handlers' refresh) and SpecDisc       *)
(* (discovery passes over project layouts).                                *)
(***************************************************************************)
EXTENDS Integers, Sequences, FiniteSets, Bags, TLC

VARIABLES
    ws,      \* a workspace folder is open (vscode.workspace.workspaceFolders?.[0])
    files,   \* content of the two settings files, by hook scope
    dirs,    \* whether the directory of each settings file exists
    last,    \* the HooksService call that ended last, with what it saw
    prev,    \* the HooksService call before it
    calls,   \* the number of calls made so far
    orig,    \* the settings files as they were before the first call
    fs,      \* the file system: existing path -> node
    view,    \* the items the tree views hold since the last refresh
    out,     \* the FileOperationsService / discovery call that ended last
    perm,    \* the settings file PermissionsService reads
    watch,   \* the file watcher: clock, pending timer, notifications, refreshes
    proc     \* the hook mutations in flight, each between its read and its write

vars == <<ws, files, dirs, last, prev, calls, orig, fs, view, out, perm, watch, proc>>

\* What the variables of the other services hold while a specification does
\* not exercise them.
NoPerm == [kind |-> "absent"]
\* setupFileWatcher has run: no timer set, no notification seen yet.
NoWatch ==
    [now |-> 0, fileWatcher |-> TRUE, refreshTimeout |-> [pending |-> FALSE, due |-> 0],
     orphans |-> {}, lastEvent |-> "none", notes |-> {}, refreshes |-> << >>,
     deactivated |-> FALSE, staleFired |-> FALSE]
\* No hook mutation is under way.
NoProc ==
    [tasks |-> [p \in {1, 2} |-> [pc |-> "idle", op |-> "none", ok |-> FALSE]],
     bothRead |-> FALSE, lastWriter |-> 0]

Min(S) == CHOOSE x \in S : \A y \in S : x <= y

(***************************************************************************)
(* JSON values of a settings file.  A JS value read from a missing key is  *)
(* undefined; JSON.stringify leaves out every key whose value is           *)
(* undefined, JSON.parse never produces one.                               *)
(***************************************************************************)
Undefined == "undefined"

\* An exception thrown inside try { ... } catch { return <fallback> } does not
\* leave the function: what leaves is nothing, whatever the block throws.
Uncaught(throws) == throws
Caught(throws) == FALSE

HookKeys == {"type", "command", "prompt", "timeout"}

\* A Hook as the TypeScript code holds it: every field readable, a field
\* that is not set reads as undefined.
Hook(t, c, p, to) == [type |-> t, command |-> c, prompt |-> p, timeout |-> to]

\* The hooks the createHook / editHook / duplicateHook commands hand over:
\* a command hook with the default timeout (no timeout key) and a prompt
\* hook with a timeout of its own.
HookInputs ==
    { Hook("command", "npm run lint", Undefined, Undefined),
      Hook("prompt", Undefined, "review the output", "30") }

NoHook == Hook(Undefined, Undefined, Undefined, Undefined)

\* A faulty stringify: the timeout key is lost.
StringifyHookDropsTimeout(h) ==
    [k \in {x \in HookKeys \ {"timeout"} : h[x] # Undefined} |-> h[k]]

\* JSON.stringify of one hook object: the keys that hold a value.
StringifyHook(h) == [k \in {x \in HookKeys : h[x] # Undefined} |-> h[k]]

\* JSON.parse of one hook object, as the code reads its fields afterwards.
ParseHook(j) == [k \in HookKeys |-> IF k \in DOMAIN j THEN j[k] ELSE Undefined]

EventTypes == {"PreToolUse", "Stop"}
Matchers == {"*", "Bash"}

\* One element of an event type's array.  kind "null" is a JSON null,
\* hasHooks = FALSE an object without a `hooks` array.
Entry(m, hs) == [kind |-> "object", matcher |-> m, hasHooks |-> TRUE, hooks |-> hs]
NullEntry == [kind |-> "null", matcher |-> Undefined, hasHooks |-> FALSE, hooks |-> <<>>]
BareEntry(m) == [kind |-> "object", matcher |-> m, hasHooks |-> FALSE, hooks |-> <<>>]

\* The `hooks` value of a settings object: absent, or an object holding, per
\* event type, either no key or an array of entries.
NoKey == [present |-> FALSE, arr |-> << >>]
Key(arr) == [present |-> TRUE, arr |-> arr]
NoHooks == [present |-> FALSE, map |-> [ev \in EventTypes |-> NoKey]]
HooksObj(m) == [present |-> TRUE, map |-> m]
OneEvent(ev, arr) == [e \in EventTypes |-> IF e = ev THEN Key(arr) ELSE NoKey]

\* A settings document: its `hooks` key and the value of its other top-level
\* keys (`permissions`, ...), "none" when it has no other key.
Settings(h, o) == [hooks |-> h, other |-> o]
EmptySettings == Settings(NoHooks, "none")

\* JSON.parse(content): every hook object of the text, key by key.
ParseEntry(e) == [e EXCEPT !.hooks = [n \in DOMAIN e.hooks |-> ParseHook(e.hooks[n])]]
ParseKey(k) == [k EXCEPT !.arr = [i \in DOMAIN k.arr |-> ParseEntry(k.arr[i])]]
JsonParse(text) ==
    [text EXCEPT !.hooks.map = [ev \in EventTypes |-> ParseKey(text.hooks.map[ev])]]

\* JSON.stringify(settings, null, 2): every hook object of the document.
StringifyEntry(e) ==
    [e EXCEPT !.hooks = [n \in DOMAIN e.hooks |-> StringifyHook(e.hooks[n])]]
StringifyKey(k) == [k EXCEPT !.arr = [i \in DOMAIN k.arr |-> StringifyEntry(k.arr[i])]]
JsonStringify(settings) ==
    [settings EXCEPT !.hooks.map =
        [ev \in EventTypes |-> StringifyKey(settings.hooks.map[ev])]]

\* What a settings path holds: no file, a file that is not JSON, or JSON.
Absent == [kind |-> "absent", doc |-> EmptySettings]
Garbage == [kind |-> "garbage", doc |-> EmptySettings]
Json(settings) == [kind |-> "json", doc |-> JsonStringify(settings)]

\* s.splice(i, 1) with i counted from 1: an index past the end removes nothing.
RemoveAt(s, i) ==
    [j \in 1..(Len(s) - (IF i \in DOMAIN s THEN 1 ELSE 0)) |->
        IF j < i THEN s[j] ELSE s[j + 1]]

MaxCalls == 2

(***************************************************************************)
(* HooksService                                                            *)
(***************************************************************************)
Scopes == {"global", "local"}

\* getSettingsPath: null for the local scope when no workspace folder is open.
HasSettingsPath(scope) == scope = "global" \/ ws

\* settings.hooks[eventType].find((m) => m.matcher === matcher): the index of
\* the first entry with that matcher, 0 when there is none; reading .matcher
\* of a null element met on the way throws.
Matching(arr, matcher) ==
    {i \in DOMAIN arr : arr[i].kind = "object" /\ arr[i].matcher = matcher}
Nulls(arr) == {i \in DOMAIN arr : arr[i].kind = "null"}
FindMatcher(arr, matcher) ==
    IF Matching(arr, matcher) = {} THEN 0 ELSE Min(Matching(arr, matcher))
FindThrows(arr, matcher) ==
    /\ Nulls(arr) # {}
    /\ FindMatcher(arr, matcher) = 0 \/ Min(Nulls(arr)) < FindMatcher(arr, matcher)

\* A faulty addHook: it always pushes a new matcher entry.
AddHookFreshEntry(content, eventType, matcher, hook) ==
    LET settings == IF content.kind = "json" THEN JsonParse(content.doc) ELSE EmptySettings
        arr == settings.hooks.map[eventType].arr
    IN  IF content.kind = "garbage" \/ FindThrows(arr, matcher)
        THEN [throws |-> TRUE, settings |-> settings]
        ELSE [throws |-> FALSE,
              settings |-> [settings EXCEPT !.hooks.present = TRUE,
                               !.hooks.map[eventType] =
                                   Key(Append(arr, Entry(matcher, <<hook>>)))]]

\* A faulty addHook: without a file it starts from a settings object that
\* has keys of its own.
AddHookFromDefaults(content, eventType, matcher, hook) ==
    LET settings == IF content.kind = "json" THEN JsonParse(content.doc)
                    ELSE Settings(NoHooks, "permissions")
        arr == settings.hooks.map[eventType].arr
        idx == FindMatcher(arr, matcher)
    IN  IF \/ content.kind = "garbage"
           \/ FindThrows(arr, matcher)
           \/ idx > 0 /\ ~arr[idx].hasHooks
        THEN [throws |-> TRUE, settings |-> settings]
        ELSE [throws |-> FALSE,
              settings |-> [settings EXCEPT !.hooks.present = TRUE,
                               !.hooks.map[eventType] =
                                   IF idx = 0
                                   THEN Key(Append(arr, Entry(matcher, <<hook>>)))
                                   ELSE Key([arr EXCEPT ![idx].hooks = Append(@, hook)])]]

\* A faulty addHook: it writes the hooks key alone.
AddHookForgetsOther(content, eventType, matcher, hook) ==
    LET settings == IF content.kind = "json" THEN JsonParse(content.doc) ELSE EmptySettings
        arr == settings.hooks.map[eventType].arr
        idx == FindMatcher(arr, matcher)
    IN  IF \/ content.kind = "garbage"
           \/ FindThrows(arr, matcher)
           \/ idx > 0 /\ ~arr[idx].hasHooks
        THEN [throws |-> TRUE, settings |-> settings]
        ELSE [throws |-> FALSE,
              settings |-> [settings EXCEPT !.other = "none", !.hooks.present = TRUE,
                               !.hooks.map[eventType] =
                                   IF idx = 0
                                   THEN Key(Append(arr, Entry(matcher, <<hook>>)))
                                   ELSE Key([arr EXCEPT ![idx].hooks = Append(@, hook)])]]

\* addHook, lines 283-306: the settings object to write, or a throw.
AddHookSettings(content, eventType, matcher, hook) ==
    LET settings == IF content.kind = "json" THEN JsonParse(content.doc) ELSE EmptySettings
        arr == settings.hooks.map[eventType].arr
        idx == FindMatcher(arr, matcher)
    IN  IF \/ content.kind = "garbage"
           \/ FindThrows(arr, matcher)
           \/ idx > 0 /\ ~arr[idx].hasHooks
        THEN [throws |-> TRUE, settings |-> settings]
        ELSE [throws |-> FALSE,
              settings |-> [settings EXCEPT !.hooks.present = TRUE,
                               !.hooks.map[eventType] =
                                   IF idx = 0
                                   THEN Key(Append(arr, Entry(matcher, <<hook>>)))
                                   ELSE Key([arr EXCEPT ![idx].hooks = Append(@, hook)])]]

\* A faulty guard: it does not look at the indices.
AddressedNoRangeCheck(content, eventType, matcherIndex, hookIndex) ==
    IF content.kind = "absent" THEN "missing"
    ELSE IF content.kind = "garbage" THEN "throws"
    ELSE "found"

\* The guard of updateHook and deleteHook, lines 327-343 and 366-382, on the
\* freshly read file: "found", "missing" (an error message) or "throws".
Addressed(content, eventType, matcherIndex, hookIndex) ==
    LET hooks == content.doc.hooks
        key == hooks.map[eventType]
    IN  IF content.kind = "absent" THEN "missing"
        ELSE IF content.kind = "garbage" THEN "throws"
        ELSE IF ~hooks.present \/ ~key.present THEN "missing"
        ELSE IF matcherIndex + 1 \notin DOMAIN key.arr THEN "missing"
        ELSE IF key.arr[matcherIndex + 1].kind = "null" THEN "missing"
        ELSE IF ~key.arr[matcherIndex + 1].hasHooks THEN "throws"
        ELSE IF hookIndex + 1 \notin DOMAIN key.arr[matcherIndex + 1].hooks THEN "missing"
        ELSE "found"

\* A faulty updateHook: the first hook of the entry is replaced.
UpdateHookFirst(content, eventType, matcherIndex, hookIndex, updatedHook) ==
    [JsonParse(content.doc) EXCEPT
        !.hooks.map[eventType].arr[matcherIndex + 1].hooks[1] = updatedHook]

\* updateHook, line 346.
UpdateHookSettings(content, eventType, matcherIndex, hookIndex, updatedHook) ==
    [JsonParse(content.doc) EXCEPT
        !.hooks.map[eventType].arr[matcherIndex + 1].hooks[hookIndex + 1] = updatedHook]

\* A faulty deleteHook: it removes the hook and cleans nothing up.
DeleteHookKeepsEmpty(content, eventType, matcherIndex, hookIndex) ==
    [JsonParse(content.doc) EXCEPT
        !.hooks.map[eventType].arr[matcherIndex + 1].hooks = RemoveAt(@, hookIndex + 1)]

\* A faulty deleteHook: an emptied `hooks` object is left in the file.
DeleteHookKeepsHooksKey(content, eventType, matcherIndex, hookIndex) ==
    LET settings == JsonParse(content.doc)
        arr == settings.hooks.map[eventType].arr
        hooks1 == RemoveAt(arr[matcherIndex + 1].hooks, hookIndex + 1)
        arr1 == IF hooks1 = << >>
                THEN RemoveAt(arr, matcherIndex + 1)
                ELSE [arr EXCEPT ![matcherIndex + 1].hooks = hooks1]
    IN  [settings EXCEPT !.hooks.map[eventType] =
            IF arr1 = << >> THEN NoKey ELSE Key(arr1)]

\* deleteHook, lines 384-396: the splice and the cleanup of empty structures.
DeleteHookSettings(content, eventType, matcherIndex, hookIndex) ==
    LET settings == JsonParse(content.doc)
        arr == settings.hooks.map[eventType].arr
        hooks1 == RemoveAt(arr[matcherIndex + 1].hooks, hookIndex + 1)
        arr1 == IF hooks1 = << >>
                THEN RemoveAt(arr, matcherIndex + 1)
                ELSE [arr EXCEPT ![matcherIndex + 1].hooks = hooks1]
        map1 == [settings.hooks.map EXCEPT
                    ![eventType] = IF arr1 = << >> THEN NoKey ELSE Key(arr1)]
    IN  [settings EXCEPT !.hooks =
            IF \A ev \in EventTypes : ~map1[ev].present THEN NoHooks ELSE HooksObj(map1)]

\* The message a HooksService call shows: addHook lines 273-274 and 314,
\* updateHook lines 327-343 and 354, deleteHook lines 366-382 and 404.
FileNotFound == "Settings file not found."
HookNotFound == "Hook not found in settings."
HookMessage(op, scope, eventType, mi, hi, ok) ==
    IF op = "addHook"
    THEN IF ~HasSettingsPath(scope) THEN "Cannot determine settings path"
         ELSE IF ok THEN "none" ELSE "Failed to add hook"
    ELSE IF files[scope].kind = "absent" THEN FileNotFound
    ELSE IF Addressed(files[scope], eventType, mi, hi) = "missing" THEN HookNotFound
    ELSE IF ok THEN "none" ELSE "Failed"

\* The record of a HooksService call: its arguments, its result and the
\* target file and directory as the call found them.
Call(op, scope, eventType, matcher, mi, hi, hook, ok) ==
    [op |-> op, scope |-> scope, eventType |-> eventType, matcher |-> matcher,
     matcherIndex |-> mi, hookIndex |-> hi, hook |-> hook, ok |-> ok,
     msg |-> HookMessage(op, scope, eventType, mi, hi, ok),
     before |-> files[scope], dirBefore |-> dirs[scope]]
NoCall ==
    [op |-> "none", scope |-> "global", eventType |-> "Stop", matcher |-> Undefined,
     matcherIndex |-> 0, hookIndex |-> 0, hook |-> NoHook, ok |-> FALSE,
     msg |-> "none", before |-> Absent, dirBefore |-> FALSE]
\* What is kept of the call before the last one: a successful addHook.
Remembered(call) == IF call.op = "addHook" /\ call.ok THEN call ELSE NoCall

\* addHook(scope, eventType, matcher, hook).  writeFails: fs.promises.writeFile
\* rejects (EACCES, ENOSPC), which the catch turns into `false`.
AddHook(scope, eventType, matcher, hook, writeFails) ==
    LET r == AddHookSettings(files[scope], eventType, matcher, hook)
        ok == HasSettingsPath(scope) /\ ~r.throws /\ ~writeFails
    IN  /\ calls < MaxCalls
        /\ dirs' = IF HasSettingsPath(scope) THEN [dirs EXCEPT ![scope] = TRUE] ELSE dirs
        /\ files' = IF ok THEN [files EXCEPT ![scope] = Json(r.settings)] ELSE files
        /\ last' = Call("addHook", scope, eventType, matcher, 0, 0, hook, ok)
        /\ prev' = Remembered(last)
        /\ calls' = calls + 1
        /\ UNCHANGED <<perm, watch, proc, ws, orig, fs, view, out>>

\* updateHook(configPath, eventType, matcherIndex, hookIndex, updatedHook).
UpdateHook(scope, eventType, matcherIndex, hookIndex, updatedHook, writeFails) ==
    LET found == Addressed(files[scope], eventType, matcherIndex, hookIndex) = "found"
        ok == found /\ ~writeFails
    IN  /\ calls < MaxCalls
        /\ files' = IF ok
                    THEN [files EXCEPT ![scope] = Json(UpdateHookSettings(
                            files[scope], eventType, matcherIndex, hookIndex, updatedHook))]
                    ELSE files
        /\ last' = Call("updateHook", scope, eventType, Undefined,
                        matcherIndex, hookIndex, updatedHook, ok)
        /\ prev' = Remembered(last)
        /\ calls' = calls + 1
        /\ UNCHANGED <<perm, watch, proc, ws, orig, dirs, fs, view, out>>

\* deleteHook(configPath, eventType, matcherIndex, hookIndex).
DeleteHook(scope, eventType, matcherIndex, hookIndex, writeFails) ==
    LET found == Addressed(files[scope], eventType, matcherIndex, hookIndex) = "found"
        ok == found /\ ~writeFails
    IN  /\ calls < MaxCalls
        /\ files' = IF ok
                    THEN [files EXCEPT ![scope] = Json(DeleteHookSettings(
                            files[scope], eventType, matcherIndex, hookIndex))]
                    ELSE files
        /\ last' = Call("deleteHook", scope, eventType, Undefined,
                        matcherIndex, hookIndex, NoHook, ok)
        /\ prev' = Remembered(last)
        /\ calls' = calls + 1
        /\ UNCHANGED <<perm, watch, proc, ws, orig, dirs, fs, view, out>>

\* parseHooks(configPath, location), lines 214-262.  The event types are
\* visited in a fixed order; reading .hooks of a null element throws, and
\* the catch returns [] for the whole file.
EventOrder == << "PreToolUse", "Stop" >>

IsMatcherObj(e) == e.kind = "object" /\ e.hasHooks
ToMatcher(e) == [matcher |-> e.matcher, hooks |-> e.hooks]

ParseMatchers(arr) ==
    LET kept == SelectSeq(arr, IsMatcherObj)
    IN  [i \in DOMAIN kept |-> ToMatcher(kept[i])]

RECURSIVE ParseEvents(_, _, _)
ParseEvents(settings, configPath, n) ==
    IF n > Len(EventOrder) THEN << >>
    ELSE LET ev == EventOrder[n]
             key == settings.hooks.map[ev]
             matchers == ParseMatchers(key.arr)
             rest == ParseEvents(settings, configPath, n + 1)
         IN  IF key.present /\ matchers # << >>
             THEN << [eventType |-> ev, matchers |-> matchers,
                      configPath |-> configPath] >> \o rest
             ELSE rest

ParseHooks(configPath) ==
    LET content == files[configPath]
        settings == JsonParse(content.doc)
    IN  IF content.kind # "json" \/ ~settings.hooks.present THEN << >>
        ELSE IF \E ev \in EventTypes : Nulls(settings.hooks.map[ev].arr) # {} THEN << >>
        ELSE ParseEvents(settings, configPath, 1)

\* discoverHooks(), lines 187-212: the global file, then the project's local
\* file when a workspace folder is open.
DiscoverHooks ==
    (IF files["global"].kind # "absent" THEN ParseHooks("global") ELSE << >>)
    \o (IF ws /\ files["local"].kind # "absent" THEN ParseHooks("local") ELSE << >>)

\* A settings file that stat() finds and readFile cannot read.
Unreadable == [kind |-> "unreadable", doc |-> EmptySettings]
\* What the try block of parseHooks throws: readFile on a file that cannot be
\* read, JSON.parse on text that is not JSON, .hooks of a null element.
ParseHooksThrows(configPath) ==
    LET content == files[configPath]
    IN  \/ content.kind # "json"
        \/ /\ JsonParse(content.doc).hooks.present
           /\ \E ev \in EventTypes : Nulls(JsonParse(content.doc).hooks.map[ev].arr) # {}
\* Whether an exception leaves discoverHooks: fileExists and parseHooks each
\* catch their own, discoverHooks itself has no try.
DiscoverHooksRaises ==
    \E sc \in {"global"} \cup (IF ws THEN {"local"} ELSE {}) :
        \/ Caught(files[sc].kind = "absent")
        \/ files[sc].kind # "absent" /\ Caught(ParseHooksThrows(sc))

(***************************************************************************)
(* HooksTreeProvider: the hook items built from a discovery pass.  A file  *)
(* stands for its location (each location has one settings file).          *)
(***************************************************************************)
\* groupedByLocation.get(location), then groupedByEvent.get(eventType): the
\* configurations of that location and event type, in discovery order.
EventConfigs(configs, location, eventType) ==
    LET InGroup(c) == c.configPath = location /\ c.eventType = eventType
    IN  SelectSeq(configs, InGroup)
\* Array.prototype.indexOf, counted from 0; -1 when x is not in s.
IndexOf(s, x) ==
    IF \E i \in DOMAIN s : s[i] = x THEN Min({i \in DOMAIN s : s[i] = x}) - 1 ELSE -1
\* createHookItem(hook, hookIndex, config, matcher, matcherIndex), lines
\* 884-943: the hookData stored on the item.
CreateHookItem(hook, hookIndex, config, matcherIndex) ==
    [configPath |-> config.configPath, eventType |-> config.eventType,
     matcherIndex |-> matcherIndex, hookIndex |-> hookIndex, hook |-> hook]
\* getChildren(), lines 826-844: for each configuration of the event group
\* and each of its matchers, matcher.hooks.map((hook, hookIndex) =>
\* createHookItem(hook, hookIndex, config, matcher, eventConfigs.indexOf(config))).
HookItems(configs) ==
    UNION {UNION {{CreateHookItem(configs[c].matchers[m].hooks[h], h - 1, configs[c],
                       IndexOf(EventConfigs(configs, configs[c].configPath,
                                            configs[c].eventType), configs[c])) :
                      h \in DOMAIN configs[c].matchers[m].hooks} :
                  m \in DOMAIN configs[c].matchers} :
           c \in DOMAIN configs}

(***************************************************************************)
(* The file system.  A path is a sequence of names from the root, a name   *)
(* is its base and its extension (path.extname), and fs maps each existing *)
(* path to its node.                                                       *)
(***************************************************************************)
N(b, e) == [b |-> b, e |-> e]
DirNode == [kind |-> "dir", content |-> ""]
\* A directory that stat() finds and readdir() cannot list (EACCES).
UnreadableDir == [kind |-> "dir", content |-> "EACCES"]
FileNode(c) == [kind |-> "file", content |-> c]

Dirname(p) == SubSeq(p, 1, Len(p) - 1)
Basename(p) == p[Len(p)]
Join(dir, name) == dir \o << name >>
IsPrefix(a, p) == Len(a) <= Len(p) /\ SubSeq(p, 1, Len(a)) = a
Under(dir, p) == IsPrefix(dir, p) /\ p # dir
Prefixes(p) == {SubSeq(p, 1, k) : k \in 1..Len(p)}

\* path.extname(name).toLowerCase()
LowerExt(name) == IF name.e = "MD" THEN "md" ELSE name.e

Home == << N("home", "") >>
GlobalClaudePath == Join(Home, N(".claude", ""))
WorkspaceFolder == << N("proj", "") >>
ProjectClaudePath == Join(WorkspaceFolder, N(".claude", ""))

CLAUDE_MD_PATTERNS == << N("CLAUDE", "md"), N("claude", "md") >>
SKILLS_DIR == N("skills", "")
AGENTS_DIR == N("agents", "")
MCP_DIR == N("mcp-servers", "")
COMMANDS_DIR == N("commands", "")
MARKDOWN_EXTENSIONS == {"md", "markdown"}
JSON_EXTENSIONS == {"json"}
McpConfig == N("mcp_servers", "json")
NodeModules == N("node_modules", "")

\* fs.promises.mkdir(dir, {recursive: true}): throws when a name on the way
\* is a file, else creates every missing directory of the path.
MkdirOk(f, dir) == \A q \in Prefixes(dir) : q \in DOMAIN f => f[q].kind = "dir"
Mkdir(f, dir) ==
    [p \in DOMAIN f \cup Prefixes(dir) |-> IF p \in DOMAIN f THEN f[p] ELSE DirNode]

\* fs.promises.rename(src, dst): ENOENT without the source or the target's
\* parent, EINVAL into the source's own subtree, EISDIR / ENOTDIR when the
\* kinds differ, ENOTEMPTY onto a directory with entries; else the target is
\* replaced and the source's subtree moves (onto itself: nothing changes).
Moved(f, src) == {p \in DOMAIN f : IsPrefix(src, p)}
Reroot(src, dst, p) == dst \o SubSeq(p, Len(src) + 1, Len(p))
RenameOk(f, src, dst) ==
    /\ src \in DOMAIN f
    /\ Dirname(dst) \in DOMAIN f /\ f[Dirname(dst)].kind = "dir"
    /\ src = dst \/ ~IsPrefix(src, dst)
    /\ dst \in DOMAIN f =>
          /\ f[dst].kind = f[src].kind
          /\ f[dst].kind = "dir" /\ src # dst => ~\E p \in DOMAIN f : Under(dst, p)
Rename(f, src, dst) ==
    LET kept == (DOMAIN f \ Moved(f, src)) \ {dst}
        new == {Reroot(src, dst, p) : p \in Moved(f, src)}
    IN  [q \in kept \cup new |->
            IF q \in new THEN f[CHOOSE p \in Moved(f, src) : Reroot(src, dst, p) = q]
            ELSE f[q]]

(***************************************************************************)
(* FileDiscoveryService.  A result is a bag of ClaudeFile items: the order *)
(* of readdir and findFiles is not fixed, the number of times a file is    *)
(* returned is.                                                            *)
(***************************************************************************)
\* createClaudeFile, lines 224-240
CreateClaudeFile(filePath, type, scope, isDirectory) ==
    [name |-> Basename(filePath), path |-> filePath, scope |-> scope,
     type |-> type, isDirectory |-> isDirectory]

\* fileExists / directoryExists: stat().isFile() / stat().isDirectory()
DiscFileExists(f, p) == p \in DOMAIN f /\ f[p].kind = "file"
DirectoryExists(f, p) == p \in DOMAIN f /\ f[p].kind = "dir"

\* for (const pattern of CLAUDE_MD_PATTERNS) { if exists { push; break } }
FirstPattern(f, dir) ==
    {Join(dir, CLAUDE_MD_PATTERNS[i]) : i \in
        {j \in DOMAIN CLAUDE_MD_PATTERNS :
            /\ DiscFileExists(f, Join(dir, CLAUDE_MD_PATTERNS[j]))
            /\ \A k \in 1..(j - 1) : ~DiscFileExists(f, Join(dir, CLAUDE_MD_PATTERNS[k]))}}

\* vscode.workspace.findFiles('**/' + pattern, '**/node_modules/**', limit):
\* the files of the workspace folder with that name, at any depth, none of
\* them below a node_modules directory, at most limit of them.
MaxResults == 100
InNodeModules(p) == \E k \in 1..(Len(p) - 1) : p[k] = NodeModules
\* maxResults: the search stops after that many matches.
RECURSIVE Take(_, _)
Take(S, n) ==
    IF n = 0 \/ S = {} THEN {}
    ELSE LET x == CHOOSE y \in S : TRUE IN {x} \cup Take(S \ {x}, n - 1)
FindFiles(f, pattern, limit) ==
    LET found == {p \in DOMAIN f : /\ Under(WorkspaceFolder, p)
                                   /\ f[p].kind = "file"
                                   /\ Basename(p) = pattern
                                   /\ ~InNodeModules(p)}
    IN  IF Cardinality(found) <= limit THEN found ELSE Take(found, limit)

\* A faulty search: the files directly in rootPath are kept.
NestedOfPatternKeepsRoot(f, rootPath, i) ==
    SetToBag({CreateClaudeFile(p, "memory", "nested", Undefined) :
        p \in FindFiles(f, CLAUDE_MD_PATTERNS[i], MaxResults)})

\* findNestedClaudeFiles(rootPath), lines 194-222: one search per pattern,
\* every match kept but those directly in rootPath.
NestedOfPattern(f, rootPath, i) ==
    SetToBag({CreateClaudeFile(p, "memory", "nested", Undefined) :
        p \in {q \in FindFiles(f, CLAUDE_MD_PATTERNS[i], MaxResults) :
                  Dirname(q) # rootPath}})
RECURSIVE NestedFrom(_, _, _)
NestedFrom(f, rootPath, i) ==
    IF i > Len(CLAUDE_MD_PATTERNS) THEN EmptyBag
    ELSE NestedOfPattern(f, rootPath, i) (+) NestedFrom(f, rootPath, i + 1)
FindNestedClaudeFiles(f, rootPath) == NestedFrom(f, rootPath, 1)

\* discoverMemories(), lines 54-93
DiscoverMemories(f, w) ==
    LET At(dir, scope) ==
            SetToBag({CreateClaudeFile(p, "memory", scope, Undefined) :
                         p \in FirstPattern(f, dir)})
    IN  At(GlobalClaudePath, "global")
        (+) (IF w THEN At(WorkspaceFolder, "project")
                       (+) At(ProjectClaudePath, "project")
                       (+) FindNestedClaudeFiles(f, WorkspaceFolder)
             ELSE EmptyBag)

\* getFilesInDirectory / getFilesAndDirsInDirectory: the files below dirPath
\* with one of the extensions, and with them every directory below it.
\* readdir(dir) throws for a directory that cannot be listed.
ReaddirThrows(f, dir) == f[dir] = UnreadableDir
\* The recursion reaches dir when every directory from dirPath down to its
\* parent could be listed; it lists p when it reaches p's directory and can
\* list that too (a failed readdir is caught and yields [] for that directory).
Reached(f, dirPath, dir) ==
    \A a \in Prefixes(dir) : IsPrefix(dirPath, a) /\ a # dir => ~ReaddirThrows(f, a)
Listed(f, dirPath, p) ==
    Reached(f, dirPath, Dirname(p)) /\ ~ReaddirThrows(f, Dirname(p))
GetFilesInDirectory(f, dirPath, extensions) ==
    {p \in DOMAIN f : Under(dirPath, p) /\ f[p].kind = "file"
                      /\ LowerExt(Basename(p)) \in extensions
                      /\ Listed(f, dirPath, p)}
GetDirsInDirectory(f, dirPath) ==
    {p \in DOMAIN f : Under(dirPath, p) /\ f[p].kind = "dir" /\ Listed(f, dirPath, p)}
\* Whether an exception leaves getFilesInDirectory / getFilesAndDirsInDirectory:
\* each call of the recursion has its own try / catch around readdir.
GetFilesRaises(f, dirPath) ==
    \E d \in DOMAIN f :
        /\ IsPrefix(dirPath, d) /\ f[d].kind = "dir" /\ Reached(f, dirPath, d)
        /\ Caught(ReaddirThrows(f, d))
\* discoverFilesInDir / discoverFilesAndDirsInDir: directoryExists catches
\* what stat throws, the listing is awaited outside any try.
DiscoverInDirRaises(f, w, dirName) ==
    \E base \in {GlobalClaudePath} \cup (IF w THEN {ProjectClaudePath} ELSE {}) :
        \/ Caught(Join(base, dirName) \notin DOMAIN f)
        \/ DirectoryExists(f, Join(base, dirName)) /\ GetFilesRaises(f, Join(base, dirName))

\* discoverFilesInDir, lines 132-161
DiscoverFilesInDir(f, w, dirName, fileType, extensions) ==
    LET In(base, scope) ==
            IF DirectoryExists(f, Join(base, dirName))
            THEN SetToBag({CreateClaudeFile(p, fileType, scope, Undefined) :
                     p \in GetFilesInDirectory(f, Join(base, dirName), extensions)})
            ELSE EmptyBag
    IN  In(GlobalClaudePath, "global")
        (+) (IF w THEN In(ProjectClaudePath, "project") ELSE EmptyBag)

\* A faulty discovery: the project directory is not looked at.
DiscoverFilesAndDirsGlobalOnly(f, w, dirName, fileType, extensions) ==
    IF DirectoryExists(f, Join(GlobalClaudePath, dirName))
    THEN SetToBag({CreateClaudeFile(p, fileType, "global", "false") :
             p \in GetFilesInDirectory(f, Join(GlobalClaudePath, dirName), extensions)})
         (+) SetToBag({CreateClaudeFile(p, fileType, "global", "true") :
             p \in GetDirsInDirectory(f, Join(GlobalClaudePath, dirName))})
    ELSE EmptyBag

\* discoverFilesAndDirsInDir, lines 163-192
DiscoverFilesAndDirsInDir(f, w, dirName, fileType, extensions) ==
    LET In(base, scope) ==
            IF DirectoryExists(f, Join(base, dirName))
            THEN SetToBag({CreateClaudeFile(p, fileType, scope, "false") :
                     p \in GetFilesInDirectory(f, Join(base, dirName), extensions)})
                 (+) SetToBag({CreateClaudeFile(p, fileType, scope, "true") :
                     p \in GetDirsInDirectory(f, Join(base, dirName))})
            ELSE EmptyBag
    IN  In(GlobalClaudePath, "global")
        (+) (IF w THEN In(ProjectClaudePath, "project") ELSE EmptyBag)

DiscoverCommands(f, w) ==
    DiscoverFilesAndDirsInDir(f, w, COMMANDS_DIR, "command", MARKDOWN_EXTENSIONS)
DiscoverSkills(f, w) ==
    DiscoverFilesInDir(f, w, SKILLS_DIR, "skill", MARKDOWN_EXTENSIONS)
DiscoverSubAgents(f, w) ==
    DiscoverFilesAndDirsInDir(f, w, AGENTS_DIR, "subAgent", MARKDOWN_EXTENSIONS)

\* discoverMcpServers(), lines 107-130: the global and the project
\* mcp_servers.json, then the files of the mcp-servers directories.
DiscoverMcpServers(f, w) ==
    LET Config(base, scope) ==
            IF DiscFileExists(f, Join(base, McpConfig))
            THEN SetToBag({CreateClaudeFile(Join(base, McpConfig), "mcp", scope, Undefined)})
            ELSE EmptyBag
    IN  Config(GlobalClaudePath, "global")
        (+) (IF w THEN Config(ProjectClaudePath, "project") ELSE EmptyBag)
        (+) DiscoverFilesInDir(f, w, MCP_DIR, "mcp",
                               MARKDOWN_EXTENSIONS \cup JSON_EXTENSIONS)
DiscoverMcpServersRaises(f, w) ==
    \/ \E base \in {GlobalClaudePath} \cup (IF w THEN {ProjectClaudePath} ELSE {}) :
           Caught(Join(base, McpConfig) \notin DOMAIN f)
    \/ DiscoverInDirRaises(f, w, MCP_DIR)

\* refreshAll(): every tree provider asks its discovery again.
Refresh(f, w) ==
    DiscoverMemories(f, w) (+) DiscoverCommands(f, w)
    (+) DiscoverSkills(f, w) (+) DiscoverSubAgents(f, w)

(***************************************************************************)
(* FileOperationsService                                                   *)
(***************************************************************************)
\* getTargetDirectory, lines 105-115
GetTargetDirectory(basePath, fileType) ==
    CASE fileType = "command" -> Join(basePath, COMMANDS_DIR)
      [] fileType = "skill" -> Join(basePath, SKILLS_DIR)
      [] fileType = "subAgent" -> Join(basePath, AGENTS_DIR)
      [] fileType = "mcp" -> Join(basePath, MCP_DIR)
      [] OTHER -> basePath

\* fileExists, lines 117-124: fs.access succeeds on a file and on a directory
FileExists(f, p) == p \in DOMAIN f

\* What the user answers to the collision warning (Undefined: dismissed) and
\* to the input box that follows 'Rename' (NoName: dismissed).
Choices == {"Overwrite", "Rename", "Cancel", Undefined}
NoName == N("", "")
NewNames == {NoName, N("deploy-2", "md"), N("deploy", "md")}

AlreadyGlobal == "File is already in global scope."
AlreadyProject == "File is already in project scope."
NoWorkspace == "No workspace folder open."
MoveFailed == "Failed to move file"
MovedNotice == "Moved"

\* The result of a call: what it returned, the message it showed, the file
\* system it left and the fs calls it made.
Result(ok, msg, f, fsCalls) == [ok |-> ok, msg |-> msg, fs |-> f, fsCalls |-> fsCalls]

\* moveFile(sourcePath, targetPath, targetScope), lines 47-103
MoveFile(f, sourcePath, targetPath, choice, newName) ==
    LET exists == FileExists(f, targetPath)
        target == IF exists /\ choice = "Rename"
                  THEN Join(Dirname(targetPath), newName) ELSE targetPath
        targetDir == Dirname(target)
        made == Mkdir(f, targetDir)
    IN  IF exists /\ (choice = "Cancel" \/ choice = Undefined)
            THEN Result(FALSE, "none", f, << "access" >>)
        ELSE IF exists /\ choice = "Rename" /\ newName = NoName
            THEN Result(FALSE, "none", f, << "access" >>)
        ELSE IF ~MkdirOk(f, targetDir)
            THEN Result(FALSE, MoveFailed, f, << "access", "mkdir" >>)
        ELSE IF ~RenameOk(made, sourcePath, target)
            THEN Result(FALSE, MoveFailed, made, << "access", "mkdir", "rename" >>)
        ELSE Result(TRUE, MovedNotice, Rename(made, sourcePath, target),
                    << "access", "mkdir", "rename" >>)

\* A faulty moveToGlobal: no scope guard.
MoveToGlobalAnyScope(f, claudeFile, choice, newName) ==
    MoveFile(f, claudeFile.path,
             Join(GetTargetDirectory(GlobalClaudePath, claudeFile.type), claudeFile.name),
             choice, newName)

\* moveToGlobal(claudeFile), lines 16-27
MoveToGlobal(f, claudeFile, choice, newName) ==
    IF claudeFile.scope = "global" THEN Result(FALSE, AlreadyGlobal, f, << >>)
    ELSE MoveFile(f, claudeFile.path,
                  Join(GetTargetDirectory(GlobalClaudePath, claudeFile.type),
                       claudeFile.name),
                  choice, newName)

\* A faulty moveToProject: no guard on the project path.
MoveToProjectAnyFolder(f, w, claudeFile, choice, newName) ==
    IF claudeFile.scope = "project" THEN Result(FALSE, AlreadyProject, f, << >>)
    ELSE MoveFile(f, claudeFile.path,
                  Join(GetTargetDirectory(ProjectClaudePath, claudeFile.type),
                       claudeFile.name),
                  choice, newName)

\* moveToProject(claudeFile), lines 29-45; w: getProjectClaudePath() is defined
MoveToProject(f, w, claudeFile, choice, newName) ==
    IF claudeFile.scope = "project" THEN Result(FALSE, AlreadyProject, f, << >>)
    ELSE IF ~w THEN Result(FALSE, NoWorkspace, f, << >>)
    ELSE MoveFile(f, claudeFile.path,
                  Join(GetTargetDirectory(ProjectClaudePath, claudeFile.type),
                       claudeFile.name),
                  choice, newName)

(***************************************************************************)
(* The command handlers of extension.ts and the environment.               *)
(***************************************************************************)
MaxOps == 3

NoItem == [name |-> NoName, path |-> << >>, scope |-> "none", type |-> "none",
           isDirectory |-> Undefined]
\* What is remembered of the call that ended last: the operation, the item it
\* was given, its result, the file system before it and, for a discovery,
\* the items returned.
Out(op, item, r, before, result) ==
    [op |-> op, item |-> item, ok |-> r.ok, msg |-> r.msg, fsCalls |-> r.fsCalls,
     before |-> before, result |-> result, arg |-> "none", refreshed |-> FALSE]
\* What is remembered of a call that was given something besides an item:
\* the content to write, the answer to a prompt.
OutWith(op, item, r, before, arg) ==
    [Out(op, item, r, before, EmptyBag) EXCEPT !.arg = arg]
\* What is remembered of a command: whether its handler called refreshAll().
Handled(o, refreshed) == [o EXCEPT !.refreshed = refreshed]
\* The answers given to the prompts of a move to a place in scope base: the
\* warning is shown when the target exists, the input box after 'Rename'.
Answers(base, item, choice, newName) ==
    IF FileExists(fs, Join(GetTargetDirectory(base, item.type), item.name))
    THEN [choice |-> choice, newName |-> IF choice = "Rename" THEN newName ELSE NoName]
    ELSE [choice |-> "none", newName |-> NoName]

BaseFs == [p \in {Home, WorkspaceFolder} |-> DirNode]
NoOut == Out("none", NoItem, Result(FALSE, "none", BaseFs, << >>), BaseFs, EmptyBag)

\* claude-code-manager.moveToGlobal, extension.ts lines 99-106
CmdMoveToGlobal(item, choice, newName) ==
    /\ calls < MaxOps
    /\ item \in BagToSet(view)
    /\ LET r == MoveToGlobal(fs, item, choice, newName)
       IN  /\ fs' = r.fs
           /\ view' = IF r.ok THEN Refresh(r.fs, ws) ELSE view
           /\ out' = Handled(OutWith("moveToGlobal", item, r, fs,
                                     Answers(GlobalClaudePath, item, choice, newName)),
                             r.ok)
    /\ calls' = calls + 1
    /\ UNCHANGED <<perm, watch, proc, ws, files, dirs, last, prev, orig>>

\* claude-code-manager.moveToProject, extension.ts lines 109-116
CmdMoveToProject(item, choice, newName) ==
    /\ calls < MaxOps
    /\ item \in BagToSet(view)
    /\ LET r == MoveToProject(fs, ws, item, choice, newName)
       IN  /\ fs' = r.fs
           /\ view' = IF r.ok THEN Refresh(r.fs, ws) ELSE view
           /\ out' = Handled(OutWith("moveToProject", item, r, fs,
                                     Answers(ProjectClaudePath, item, choice, newName)),
                             r.ok)
    /\ calls' = calls + 1
    /\ UNCHANGED <<perm, watch, proc, ws, files, dirs, last, prev, orig>>

\* Another program (a terminal, git, an editor) removes a file; the
\* tree views keep their items until the next refresh.
ExternalDelete(p) ==
    /\ calls < MaxOps
    /\ p \in DOMAIN fs /\ fs[p].kind = "file"
    /\ fs' = [q \in DOMAIN fs \ {p} |-> fs[q]]
    /\ out' = Out("external", NoItem, Result(TRUE, "none", fs', << >>), fs, EmptyBag)
    /\ calls' = calls + 1
    /\ UNCHANGED <<perm, watch, proc, ws, files, dirs, last, prev, orig, view>>

(***************************************************************************)
(* FileOperationsService: delete, rename, create.                          *)
(***************************************************************************)
DeleteFailed == "Failed to delete file"
DeletedNotice == "Deleted"
RenameFailed == "Failed to rename"
RenamedNotice == "Renamed"
AlreadyExists == "already exists"
CreateFailed == "Failed to create file"
NoTargetPath == "Cannot determine target path."

\* fs.promises.rm(path, {recursive: true, force: true}) and unlink(path)
Remove(f, p) == [q \in {x \in DOMAIN f : ~IsPrefix(p, x)} |-> f[q]]
\* fs.promises.readdir(dir).length === 0
IsEmptyDir(f, dir) == ~\E p \in DOMAIN f : Under(dir, p)

\* ['skills', 'agents', 'commands'], line 215
GroupingNames == {N("skills", ""), N("agents", ""), N("commands", "")}
\* A faulty reading of the parent's name: path.basename(parentDir).
ParentDirNameOfParent(filePath) == Basename(Dirname(filePath))

\* parentDirName, lines 212-213: path.basename(path.dirname(parentDir)) with
\* parentDir = path.dirname(claudeFile.path), the name of the directory that
\* holds the file's directory; the roots of the model stand for directories
\* whose own parents have some other name.
ParentDirName(filePath) ==
    IF Len(filePath) >= 3 THEN Basename(Dirname(Dirname(filePath))) ELSE N("", "")

DeleteChoices == {"Delete", "Cancel", Undefined}
\* A faulty deleteFile: the answer to the confirmation is not looked at.
DeleteFileUnasked(f, claudeFile, choice) ==
    IF claudeFile.path \notin DOMAIN f
        THEN Result(FALSE, DeleteFailed, f, << "stat" >>)
    ELSE IF f[claudeFile.path].kind = "dir"
        THEN Result(TRUE, DeletedNotice, Remove(f, claudeFile.path), << "stat", "rm" >>)
    ELSE Result(TRUE, DeletedNotice, Remove(f, claudeFile.path), << "stat", "unlink" >>)

\* deleteFile(claudeFile), lines 188-235
DeleteFile(f, claudeFile, choice) ==
    LET parentDir == Dirname(claudeFile.path)
        unlinked == Remove(f, claudeFile.path)
    IN  IF choice # "Delete" THEN Result(FALSE, "none", f, << >>)
        ELSE IF claudeFile.path \notin DOMAIN f
            THEN Result(FALSE, DeleteFailed, f, << "stat" >>)
        ELSE IF f[claudeFile.path].kind = "dir"
            THEN Result(TRUE, DeletedNotice, Remove(f, claudeFile.path), << "stat", "rm" >>)
        ELSE IF ParentDirName(claudeFile.path) \in GroupingNames
            THEN IF IsEmptyDir(unlinked, parentDir)
                 THEN Result(TRUE, DeletedNotice, Remove(unlinked, parentDir),
                             << "stat", "unlink", "readdir", "rmdir" >>)
                 ELSE Result(TRUE, DeletedNotice, unlinked,
                             << "stat", "unlink", "readdir" >>)
        ELSE Result(TRUE, DeletedNotice, unlinked, << "stat", "unlink" >>)

\* What the user types into an input box: a base name of letters, digits,
\* underscores and hyphens, or nothing (dismissed).
NameInputs == {"", "deploy", "build"}

\* newFileName, line 269: the new name with the extension of the current one
\* for a file, the new name alone for a folder.
NewFileName(claudeFile, newName) ==
    IF claudeFile.isDirectory = "true" THEN N(newName, "")
    ELSE N(newName, Basename(claudeFile.path).e)
\* nameWithoutExt, lines 243-250
NameWithoutExt(claudeFile) ==
    IF claudeFile.isDirectory = "true" /\ Basename(claudeFile.path).e # ""
    THEN "full name"
    ELSE Basename(claudeFile.path).b

\* A faulty renameFile: the target is not looked for.
RenameFileUnchecked(f, claudeFile, newName) ==
    LET newPath == Join(Dirname(claudeFile.path), NewFileName(claudeFile, newName))
    IN  IF newName = "" \/ newName = NameWithoutExt(claudeFile)
            THEN Result(FALSE, "none", f, << >>)
        ELSE IF ~RenameOk(f, claudeFile.path, newPath)
            THEN Result(FALSE, RenameFailed, f, << "access", "rename" >>)
        ELSE Result(TRUE, RenamedNotice, Rename(f, claudeFile.path, newPath),
                    << "access", "rename" >>)

\* renameFile(claudeFile), lines 237-288
RenameFile(f, claudeFile, newName) ==
    LET newPath == Join(Dirname(claudeFile.path), NewFileName(claudeFile, newName))
    IN  IF newName = "" \/ newName = NameWithoutExt(claudeFile)
            THEN Result(FALSE, "none", f, << >>)
        ELSE IF FileExists(f, newPath)
            THEN Result(FALSE, AlreadyExists, f, << "access" >>)
        ELSE IF ~RenameOk(f, claudeFile.path, newPath)
            THEN Result(FALSE, RenameFailed, f, << "access", "rename" >>)
        ELSE Result(TRUE, RenamedNotice, Rename(f, claudeFile.path, newPath),
                    << "access", "rename" >>)

\* fs.promises.writeFile(targetPath, content, 'utf-8'): EISDIR on a directory
WriteFile(f, p, content) ==
    [q \in DOMAIN f \cup {p} |-> IF q = p THEN FileNode(content) ELSE f[q]]

CreateChoices == {"Overwrite", "Cancel", Undefined}
\* targetPath of createFile, lines 133-148; parentFolder is a relative path,
\* empty when the argument is not given.
CreateTarget(type, scope, name, parentFolder) ==
    GetTargetDirectory(IF scope = "global" THEN GlobalClaudePath ELSE ProjectClaudePath,
                       type) \o parentFolder \o << name >>

\* A faulty createFile: the file is written whatever the answer was.
CreateFileUnasked(f, w, type, scope, name, content, parentFolder, choice) ==
    LET targetPath == CreateTarget(type, scope, name, parentFolder)
        made == Mkdir(f, Dirname(targetPath))
    IN  IF scope # "global" /\ ~w THEN Result(FALSE, NoTargetPath, f, << >>)
        ELSE IF ~MkdirOk(f, Dirname(targetPath))
            THEN Result(FALSE, CreateFailed, f, << "mkdir" >>)
        ELSE IF FileExists(made, targetPath) /\ made[targetPath].kind = "dir"
            THEN Result(FALSE, CreateFailed, made, << "mkdir", "access", "writeFile" >>)
        ELSE Result(TRUE, "none", WriteFile(made, targetPath, content),
                    << "mkdir", "access", "writeFile" >>)

\* createFile(type, scope, name, content, parentFolder), lines 126-176; the
\* result is ok when a path is returned, which is CreateTarget(...).
CreateFile(f, w, type, scope, name, content, parentFolder, choice) ==
    LET targetPath == CreateTarget(type, scope, name, parentFolder)
        made == Mkdir(f, Dirname(targetPath))
    IN  IF scope # "global" /\ ~w THEN Result(FALSE, NoTargetPath, f, << >>)
        ELSE IF ~MkdirOk(f, Dirname(targetPath))
            THEN Result(FALSE, CreateFailed, f, << "mkdir" >>)
        ELSE IF FileExists(made, targetPath) /\ choice # "Overwrite"
            THEN Result(FALSE, "none", made, << "mkdir", "access" >>)
        ELSE IF FileExists(made, targetPath) /\ made[targetPath].kind = "dir"
            THEN Result(FALSE, CreateFailed, made, << "mkdir", "access", "writeFile" >>)
        ELSE Result(TRUE, "none", WriteFile(made, targetPath, content),
                    << "mkdir", "access", "writeFile" >>)

\* claude-code-manager.deleteFile, extension.ts lines 133-140
CmdDeleteFile(item, choice) ==
    /\ calls < MaxOps
    /\ item \in BagToSet(view)
    /\ LET r == DeleteFile(fs, item, choice)
       IN  /\ fs' = r.fs
           /\ view' = IF r.ok THEN Refresh(r.fs, ws) ELSE view
           /\ out' = Handled(OutWith("deleteFile", item, r, fs, choice), r.ok)
    /\ calls' = calls + 1
    /\ UNCHANGED <<perm, watch, proc, ws, files, dirs, last, prev, orig>>

\* claude-code-manager.renameFile, extension.ts lines 143-150
CmdRenameFile(item, newName) ==
    /\ calls < MaxOps
    /\ item \in BagToSet(view)
    /\ LET r == RenameFile(fs, item, newName)
       IN  /\ fs' = r.fs
           /\ view' = IF r.ok THEN Refresh(r.fs, ws) ELSE view
           /\ out' = Handled(OutWith("renameFile", item, r, fs, newName), r.ok)
    /\ calls' = calls + 1
    /\ UNCHANGED <<perm, watch, proc, ws, files, dirs, last, prev, orig>>

\* The content of resources/templates/command.md.template
CommandTemplate == "command template"

\* claude-code-manager.createCommand, extension.ts lines 200-258: the scope
\* picked, the name typed (nothing: the handler returns), the file name with
\* '.md' appended, createFile with the template and, when a path is
\* returned, openTextDocument, showTextDocument and then refreshAll().
\* opens: the two editor calls resolve; when one of them rejects the catch
\* shows an error and refreshAll() is not reached.
CmdCreateCommand(scope, name, choice, opens) ==
    /\ calls < MaxOps
    /\ name # ""
    /\ LET r == CreateFile(fs, ws, "command", scope, N(name, "md"), CommandTemplate,
                           << >>, choice)
           target == CreateClaudeFile(CreateTarget("command", scope, N(name, "md"), << >>),
                                      "command", scope, Undefined)
       IN  /\ ~r.ok => opens
           /\ fs' = r.fs
           /\ view' = IF r.ok /\ opens THEN Refresh(r.fs, ws) ELSE view
           /\ out' = Handled(OutWith("createCommand", target, r, fs,
                                     IF FileExists(fs, target.path) THEN choice ELSE "none"),
                             r.ok /\ opens)
    /\ calls' = calls + 1
    /\ UNCHANGED <<perm, watch, proc, ws, files, dirs, last, prev, orig>>

\* The file watcher's debounced callback and the refresh command,
\* extension.ts lines 68-72 and 919-954.
CmdRefresh ==
    /\ view # Refresh(fs, ws)
    /\ view' = Refresh(fs, ws)
    /\ UNCHANGED <<perm, watch, proc, ws, files, dirs, last, prev, calls, orig, fs, out>>

(***************************************************************************)
(* SpecFs: file operations.  The two roots start with any of a few         *)
(* artifacts in place and the views loaded.                                *)
(***************************************************************************)
Artifact(p, c) == [path |-> p, content |-> c]
WithFiles(S) ==
    [p \in {Home, WorkspaceFolder} \cup UNION {Prefixes(x.path) : x \in S} |->
        IF \E x \in S : x.path = p
        THEN FileNode((CHOOSE x \in S : x.path = p).content) ELSE DirNode]

GlobalDeploy == GlobalClaudePath \o << COMMANDS_DIR, N("deploy", "md") >>
ProjectDeploy == ProjectClaudePath \o << COMMANDS_DIR, N("deploy", "md") >>
ProjectCommit == ProjectClaudePath \o << COMMANDS_DIR, N("git", ""), N("commit", "md") >>
DocsMemory == WorkspaceFolder \o << N("docs", ""), N("CLAUDE", "md") >>
InitArtifacts ==
    { Artifact(GlobalDeploy, "global deploy"),
      Artifact(ProjectDeploy, "project deploy"),
      Artifact(ProjectCommit, "commit"),
      Artifact(DocsMemory, "docs memory") }

InitFs ==
    /\ ws \in BOOLEAN
    /\ fs \in {WithFiles(S) : S \in SUBSET InitArtifacts}
    /\ view = Refresh(fs, ws)
    /\ out = NoOut
    /\ calls = 0
    /\ files = [sc \in Scopes |-> Absent]
    /\ dirs = [sc \in Scopes |-> FALSE]
    /\ last = NoCall
    /\ prev = NoCall
    /\ orig = files
    /\ perm = NoPerm
    /\ watch = NoWatch
    /\ proc = NoProc

NextFs ==
    \/ \E item \in BagToSet(view), choice \in Choices, newName \in NewNames :
          CmdMoveToGlobal(item, choice, newName)
    \/ \E item \in BagToSet(view), choice \in Choices, newName \in NewNames :
          CmdMoveToProject(item, choice, newName)
    \/ \E p \in DOMAIN fs : ExternalDelete(p)
    \/ CmdRefresh

SpecFs == InitFs /\ [][NextFs]_vars

(***************************************************************************)
(* The delete, rename and create commands over a project's artifacts.      *)
(***************************************************************************)
PdfSkill == ProjectClaudePath \o << SKILLS_DIR, N("pdf", ""), N("SKILL", "md") >>
EditArtifacts ==
    { Artifact(ProjectDeploy, "project deploy"),
      Artifact(ProjectCommit, "commit"),
      Artifact(PdfSkill, "pdf skill") }

InitEdit ==
    /\ ws \in BOOLEAN
    /\ fs \in {WithFiles(S) : S \in SUBSET EditArtifacts}
    /\ view = Refresh(fs, ws)
    /\ out = NoOut
    /\ calls = 0
    /\ files = [sc \in Scopes |-> Absent]
    /\ dirs = [sc \in Scopes |-> FALSE]
    /\ last = NoCall
    /\ prev = NoCall
    /\ orig = files
    /\ perm = NoPerm
    /\ watch = NoWatch
    /\ proc = NoProc

NextEdit ==
    \/ \E item \in BagToSet(view), choice \in DeleteChoices : CmdDeleteFile(item, choice)
    \/ \E item \in BagToSet(view), newName \in NameInputs : CmdRenameFile(item, newName)
    \/ \E scope \in {"global", "project"}, name \in NameInputs, choice \in CreateChoices,
          opens \in BOOLEAN : CmdCreateCommand(scope, name, choice, opens)
    \/ \E p \in DOMAIN fs : ExternalDelete(p)
    \/ CmdRefresh

SpecEdit == InitEdit /\ [][NextEdit]_vars

(***************************************************************************)
(* SpecDisc: discovery passes over the layouts a project and the global    *)
(* directory may have.                                                     *)
(***************************************************************************)
Discovered(op, result) ==
    Out(op, NoItem, Result(TRUE, "none", fs, << >>), fs, result)
\* A pass that may end with an exception: ok is whether it returned.
Returned(op, raised, result) ==
    Out(op, NoItem, Result(~raised, "none", fs, << >>), fs, result)

DiscoverMemoriesPass ==
    /\ out' = Discovered("discoverMemories", DiscoverMemories(fs, ws))
    /\ UNCHANGED <<perm, watch, proc, ws, files, dirs, last, prev, calls, orig, fs, view>>
DiscoverCommandsPass ==
    /\ out' = Returned("discoverCommands", DiscoverInDirRaises(fs, ws, COMMANDS_DIR),
                       DiscoverCommands(fs, ws))
    /\ UNCHANGED <<perm, watch, proc, ws, files, dirs, last, prev, calls, orig, fs, view>>
DiscoverSkillsPass ==
    /\ out' = Returned("discoverSkills", DiscoverInDirRaises(fs, ws, SKILLS_DIR),
                       DiscoverSkills(fs, ws))
    /\ UNCHANGED <<perm, watch, proc, ws, files, dirs, last, prev, calls, orig, fs, view>>
DiscoverSubAgentsPass ==
    /\ out' = Returned("discoverSubAgents", DiscoverInDirRaises(fs, ws, AGENTS_DIR),
                       DiscoverSubAgents(fs, ws))
    /\ UNCHANGED <<perm, watch, proc, ws, files, dirs, last, prev, calls, orig, fs, view>>

DiscoverMcpServersPass ==
    /\ out' = Returned("discoverMcpServers", DiscoverMcpServersRaises(fs, ws),
                       DiscoverMcpServers(fs, ws))
    /\ UNCHANGED <<perm, watch, proc, ws, files, dirs, last, prev, calls, orig, fs, view>>
\* hooksService.discoverHooks() for the hooks tree.
DiscoverHooksPass ==
    /\ out' = Returned("discoverHooks", DiscoverHooksRaises, DiscoverHooks)
    /\ UNCHANGED <<perm, watch, proc, ws, files, dirs, last, prev, calls, orig, fs, view>>

Memory(dir, i) == Artifact(Join(dir, CLAUDE_MD_PATTERNS[i]), "memory")
SrcDir == Join(WorkspaceFolder, N("src", ""))
DiscArtifacts ==
    { Memory(GlobalClaudePath, 1),
      Memory(WorkspaceFolder, 1),
      Memory(WorkspaceFolder, 2),
      Memory(ProjectClaudePath, 1),
      Memory(Join(WorkspaceFolder, N("docs", "")), 1),
      Memory(SrcDir, 1),
      Memory(Join(SrcDir, N("api", "")), 2),
      Memory(WorkspaceFolder \o << NodeModules, N("pkg", "") >>, 1),
      Artifact(ProjectCommit, "commit"),
      Artifact(GlobalClaudePath \o << SKILLS_DIR, N("pdf", ""), N("SKILL", "MD") >>, "skill"),
      Artifact(ProjectClaudePath \o << AGENTS_DIR, N("reviewer", "md") >>, "agent") }

\* A project with many memory files: a chain of directories lib/lib/.../,
\* the first n1 of them holding a CLAUDE.md, the first n2 a claude.md.
DeepLevels == 60
Deep(k) == [i \in 1..k |-> N("lib", "")]
DeepMemories(n1, n2) ==
    {Memory(WorkspaceFolder \o Deep(k), 1) : k \in 1..n1}
    \cup {Memory(WorkspaceFolder \o Deep(k), 2) : k \in 1..n2}
DeepTrees ==
    { DeepMemories(DeepLevels, DeepLevels),
      DeepMemories(MaxResults + 1, 0),
      DeepMemories(MaxResults + 1, 1) }

InitDisc ==
    /\ ws \in BOOLEAN
    /\ fs \in {WithFiles(S) : S \in SUBSET DiscArtifacts}
               \cup {WithFiles(S) : S \in DeepTrees}
    /\ view = EmptyBag
    /\ out = NoOut
    /\ calls = 0
    /\ files = [sc \in Scopes |-> Absent]
    /\ dirs = [sc \in Scopes |-> FALSE]
    /\ last = NoCall
    /\ prev = NoCall
    /\ orig = files
    /\ perm = NoPerm
    /\ watch = NoWatch
    /\ proc = NoProc

NextDisc ==
    \/ DiscoverMemoriesPass
    \/ DiscoverCommandsPass
    \/ DiscoverSkillsPass
    \/ DiscoverSubAgentsPass

SpecDisc == InitDisc /\ [][NextDisc]_vars

(***************************************************************************)
(* Spec: hook editing.  The settings files start as a user may have left   *)
(* them: missing, not JSON, without hooks, with two entries for the same   *)
(* matcher, or with malformed elements beside a well-formed entry.         *)
(***************************************************************************)
LintHook == Hook("command", "npm run lint", Undefined, Undefined)
ReviewHook == Hook("prompt", Undefined, "review the output", "30")

InitSettings ==
    { Settings(NoHooks, "permissions"),
      Settings(HooksObj(OneEvent("PreToolUse",
          << Entry("Bash", <<LintHook>>), Entry("Bash", <<ReviewHook>>) >>)), "permissions"),
      Settings(HooksObj([ev \in EventTypes |->
          IF ev = "Stop" THEN Key(<< NullEntry, Entry("*", <<LintHook>>) >>)
          ELSE Key(<< BareEntry("Bash") >>)]), "none") }

InitContents == {Absent, Garbage} \cup {Json(d) : d \in InitSettings}

InitHooks ==
    /\ ws \in BOOLEAN
    /\ files \in [Scopes -> InitContents]
    /\ files["local"] = Absent
    /\ dirs \in [Scopes -> BOOLEAN]
    /\ files["global"].kind # "absent" => dirs["global"]
    /\ ~dirs["local"]
    /\ last = NoCall
    /\ prev = NoCall
    /\ calls = 0
    /\ orig = files
    /\ perm = NoPerm
    /\ watch = NoWatch
    /\ proc = NoProc
    /\ fs = BaseFs
    /\ view = EmptyBag
    /\ out = NoOut

\* The indices a stale or a fresh tree item may hold for an event type of a
\* file: every position of the file's array and one past its end.
RECURSIVE MaxHookLen(_)
MaxHookLen(arr) ==
    IF arr = << >> THEN 0
    ELSE LET n == Len(Head(arr).hooks)
             m == MaxHookLen(Tail(arr))
         IN IF n > m THEN n ELSE m
MatcherIndices(sc, ev) == 0..Len(files[sc].doc.hooks.map[ev].arr)
HookIndices(sc, ev) == 0..MaxHookLen(files[sc].doc.hooks.map[ev].arr)

NextHooks ==
    \/ \E sc \in Scopes, ev \in EventTypes, m \in Matchers, h \in HookInputs,
          wf \in BOOLEAN : AddHook(sc, ev, m, h, wf)
    \/ \E sc \in Scopes, ev \in EventTypes, h \in HookInputs, wf \in BOOLEAN :
          \E mi \in MatcherIndices(sc, ev), hi \in HookIndices(sc, ev) :
              UpdateHook(sc, ev, mi, hi, h, wf)
    \/ \E sc \in Scopes, ev \in EventTypes, wf \in BOOLEAN :
          \E mi \in MatcherIndices(sc, ev), hi \in HookIndices(sc, ev) :
              DeleteHook(sc, ev, mi, hi, wf)

Spec == InitHooks /\ [][NextHooks]_vars

(***************************************************************************)
(* Claims about hook editing (checked under Spec).                         *)
(***************************************************************************)
\* The array a settings file holds for an event type, as written on disk;
\* empty when the file, the `hooks` key or the event type is missing.
ArrayOf(content, ev) ==
    IF content.kind = "json" /\ content.doc.hooks.present /\ content.doc.hooks.map[ev].present
    THEN content.doc.hooks.map[ev].arr
    ELSE << >>

\* The two last calls were successful addHook calls with the same scope, event
\* type and matcher, one right after the other.
AddedTwice ==
    /\ last.op = "addHook" /\ last.ok
    /\ prev.op = "addHook" /\ prev.ok
    /\ last.scope = prev.scope
    /\ last.eventType = prev.eventType
    /\ last.matcher = prev.matcher

BothAtEnd(hooks) ==
    /\ Len(hooks) >= 2
    /\ hooks[Len(hooks) - 1] = StringifyHook(prev.hook)
    /\ hooks[Len(hooks)] = StringifyHook(last.hook)

\* C1 as stated: after addHook was called twice with the same scope, event
\* type and matcher, the file holds exactly one matcher entry for that matcher
\* under that event type, and it holds both hooks in call order.
C1_ExactlyOneEntry ==
    AddedTwice =>
        LET arr == ArrayOf(files[last.scope], last.eventType)
            hits == Matching(arr, last.matcher)
        IN  /\ Cardinality(hits) = 1
            /\ \A i \in hits : BothAtEnd(arr[i].hooks)

\* C1 amended: addHook called twice with the same scope, event type and
\* matcher creates no second entry for that matcher: the file holds as many
\* entries for it as before the first call, or one when it held none, every
\* other entry is as it was, and the first entry for the matcher holds what it
\* held before followed by both hooks in call order.
C1_SharedEntry ==
    AddedTwice =>
        LET arr0 == ArrayOf(prev.before, last.eventType)
            arr == ArrayOf(files[last.scope], last.eventType)
            hits0 == Matching(arr0, last.matcher)
            hits == Matching(arr, last.matcher)
            first == Min(hits)
        IN  /\ Cardinality(hits) = (IF hits0 = {} THEN 1 ELSE Cardinality(hits0))
            /\ Len(arr) = Len(arr0) + (IF hits0 = {} THEN 1 ELSE 0)
            /\ \A i \in DOMAIN arr0 : i # first => arr[i] = arr0[i]
            /\ BothAtEnd(arr[first].hooks)
            /\ Len(arr[first].hooks) = 2 + (IF hits0 = {} THEN 0 ELSE Len(arr0[first].hooks))
            /\ hits0 # {} => first = Min(hits0)
            /\ hits0 # {} => \A n \in DOMAIN arr0[first].hooks :
                                arr[first].hooks[n] = arr0[first].hooks[n]

\* Witness of C1: two such calls on a file that already held two entries for
\* the matcher.
C1_Witness ==
    /\ AddedTwice
    /\ Cardinality(Matching(ArrayOf(prev.before, last.eventType), last.matcher)) = 2
    /\ last.hook # prev.hook

\* The deleteHook call that ended last succeeded; what it addressed.
Deleted == last.op = "deleteHook" /\ last.ok
DeletedArray == ArrayOf(last.before, last.eventType)
DeletedOnlyHook == Len(DeletedArray[last.matcherIndex + 1].hooks) = 1
DeletedOnlyEntry == DeletedOnlyHook /\ Len(DeletedArray) = 1
DeletedOnlyEvent ==
    /\ DeletedOnlyEntry
    /\ \A ev \in EventTypes \ {last.eventType} : ~last.before.doc.hooks.map[ev].present

\* C2: deleteHook cascades cleanup.  Removing the only hook of a matcher entry
\* drops the entry; if that empties the event type's array the event-type key
\* is dropped; if no event type remains the written document has no `hooks`
\* key.
C2_DeleteCascades ==
    Deleted =>
        LET after == files[last.scope].doc
        IN  /\ files[last.scope].kind = "json"
            /\ DeletedOnlyHook /\ ~DeletedOnlyEntry =>
                   /\ after.hooks.present
                   /\ after.hooks.map[last.eventType] =
                          Key(RemoveAt(DeletedArray, last.matcherIndex + 1))
            /\ DeletedOnlyEntry => ~after.hooks.map[last.eventType].present
            /\ DeletedOnlyEntry /\ ~DeletedOnlyEvent => after.hooks.present
            /\ DeletedOnlyEvent => after.hooks = NoHooks

\* Witness of C2: the last hook of the last matcher of the last event type was
\* deleted from a file that has other top-level keys.
C2_Witness ==
    /\ Deleted /\ DeletedOnlyEvent
    /\ files[last.scope].doc.other = "permissions"

\* hooks[eventType][matcherIndex].hooks[hookIndex] exists in a file.
HookExists(content, ev, mi, hi) ==
    /\ content.kind = "json"
    /\ mi + 1 \in DOMAIN ArrayOf(content, ev)
    /\ ArrayOf(content, ev)[mi + 1].kind = "object"
    /\ ArrayOf(content, ev)[mi + 1].hasHooks
    /\ hi + 1 \in DOMAIN ArrayOf(content, ev)[mi + 1].hooks

\* C3: updateHook and deleteHook work on the file as it is at the call; when
\* the addressed hook does not exist there they return false and write
\* nothing, so the file is as before.
C3_StaleIndexFails ==
    /\ last.op \in {"updateHook", "deleteHook"}
    /\ ~HookExists(last.before, last.eventType, last.matcherIndex, last.hookIndex)
    => /\ ~last.ok
       /\ files[last.scope] = last.before

\* Witness of C3: a call with an index past the end of an existing array of a
\* file that the call before had changed.
C3_Witness ==
    /\ last.op \in {"updateHook", "deleteHook"}
    /\ ~last.ok
    /\ last.before.kind = "json"
    /\ ArrayOf(last.before, last.eventType) # << >>
    /\ last.matcherIndex + 1 \in DOMAIN ArrayOf(last.before, last.eventType)
    /\ last.before # orig[last.scope]
    /\ ~HookExists(last.before, last.eventType, last.matcherIndex, last.hookIndex)

\* The value of the top-level keys other than `hooks`.
OtherKeys(content) == IF content.kind = "json" THEN content.doc.other ELSE "none"

\* C4: after a sequence of addHook, updateHook and deleteHook calls that ends
\* in a successful one, every top-level key other than `hooks` has, in both
\* files, the value it had before the sequence.
C4_OtherKeysKept ==
    last.ok => \A sc \in Scopes : OtherKeys(files[sc]) = OtherKeys(orig[sc])

\* Witness of C4: two successful calls changed the hooks of a file that has
\* other top-level keys.
C4_Witness ==
    /\ last.ok /\ prev.ok /\ calls = 2
    /\ last.scope = prev.scope
    /\ OtherKeys(orig[last.scope]) = "permissions"
    /\ files[last.scope] # orig[last.scope]
    /\ last.op = "deleteHook"

\* A file addHook and discoverHooks read alike: missing, or JSON whose entries
\* are all objects with a `hooks` array.
WellFormed(content) ==
    \/ content.kind = "absent"
    \/ /\ content.kind = "json"
       /\ \A ev \in EventTypes : \A i \in DOMAIN content.doc.hooks.map[ev].arr :
              IsMatcherObj(content.doc.hooks.map[ev].arr[i])

\* C8: round trip.  After a successful addHook on a missing or well-formed
\* file, discoverHooks returns for that file a configuration with the event
\* type, holding a matcher entry with the matcher whose hook list ends with a
\* hook equal to the added one in type, command, prompt and timeout.
C8_RoundTrip ==
    last.op = "addHook" /\ last.ok /\ WellFormed(last.before) =>
        \E c \in DOMAIN DiscoverHooks :
            /\ DiscoverHooks[c].configPath = last.scope
            /\ DiscoverHooks[c].eventType = last.eventType
            /\ \E m \in DOMAIN DiscoverHooks[c].matchers :
                   LET entry == DiscoverHooks[c].matchers[m]
                   IN  /\ entry.matcher = last.matcher
                       /\ entry.hooks # << >>
                       /\ \A k \in HookKeys :
                              ParseHook(entry.hooks[Len(entry.hooks)])[k] = last.hook[k]

\* Witness of C8: a hook with a timeout was added to the project's local file,
\* which did not exist, while the global file holds hooks too.
C8_Witness ==
    /\ last.op = "addHook" /\ last.ok
    /\ last.scope = "local" /\ last.before.kind = "absent"
    /\ last.hook.timeout # Undefined
    /\ Len(DiscoverHooks) >= 2

\* C13: parseHooks skips each malformed matcher entry on its own: for every
\* event type of a settings file, the configuration returned for it holds
\* exactly the well-formed matcher entries of its array, in order, whatever
\* malformed elements the arrays of the file hold.
C13_SkipsEachMalformed ==
    \A sc \in Scopes :
        files[sc].kind = "json" /\ files[sc].doc.hooks.present =>
            \A ev \in EventTypes :
                LET key == JsonParse(files[sc].doc).hooks.map[ev]
                    good == SelectSeq(key.arr, IsMatcherObj)
                IN  key.present /\ good # << >> =>
                        \E c \in DOMAIN ParseHooks(sc) :
                            /\ ParseHooks(sc)[c].eventType = ev
                            /\ ParseHooks(sc)[c].matchers =
                                   [i \in DOMAIN good |-> ToMatcher(good[i])]


\* C23: addHook alone may create a settings file: on a missing file it
\* writes a document holding the new hook's structure and nothing else;
\* updateHook and deleteHook on a missing file return false with 'Settings
\* file not found.' and leave the file missing and the directory as it was.
C23_OnlyAddCreates ==
    last.op # "none" /\ last.before.kind = "absent" =>
        IF last.op = "addHook"
        THEN /\ last.ok =>
                  files[last.scope] =
                      Json(Settings(HooksObj(OneEvent(last.eventType,
                          << Entry(last.matcher, << last.hook >>) >>)), "none"))
             /\ ~last.ok => files[last.scope] = Absent
        ELSE /\ ~last.ok /\ last.msg = FileNotFound
             /\ files[last.scope] = Absent
             /\ dirs[last.scope] = last.dirBefore

C23_Witness ==
    /\ last.op = "addHook" /\ last.ok /\ last.before.kind = "absent"
    /\ files[last.scope].kind = "json"
    /\ prev.op = "none"


\* No matcher entry without hooks, no event type with an empty array, and a
\* `hooks` key exactly when the file holds a hook.
NormalForm(content) ==
    \/ content.kind = "absent"
    \/ /\ content.kind = "json"
       /\ content.doc.hooks.present =>
              \E ev \in EventTypes : content.doc.hooks.map[ev].present
       /\ \A ev \in EventTypes :
              LET key == content.doc.hooks.map[ev]
              IN  /\ key.present => content.doc.hooks.present /\ key.arr # << >>
                  /\ \A i \in DOMAIN key.arr :
                        /\ key.arr[i].kind = "object" /\ key.arr[i].hasHooks
                        /\ key.arr[i].hooks # << >>
StartsWithoutHooks(sc) ==
    \/ orig[sc].kind = "absent"
    \/ orig[sc].kind = "json" /\ ~orig[sc].doc.hooks.present

\* C26: from a missing file or a file without a `hooks` key, whatever
\* addHook, updateHook and deleteHook calls were made, successful or not,
\* the settings file is in normal form: no matcher entry with an empty hook
\* list, no event type with an empty array, a `hooks` key if and only if a
\* hook exists.
C26_NormalForm ==
    \A sc \in Scopes : StartsWithoutHooks(sc) => NormalForm(files[sc])

C26_Witness ==
    /\ last.op = "deleteHook" /\ last.ok
    /\ prev.op = "addHook"
    /\ StartsWithoutHooks(last.scope)
    /\ files[last.scope].kind = "json"
    /\ ~files[last.scope].doc.hooks.present


\* Every hook of a file, in the order of the file: by event type, by matcher
\* entry, by position.
RECURSIVE FlatEntries(_)
FlatEntries(arr) ==
    IF arr = << >> THEN << >> ELSE Head(arr).hooks \o FlatEntries(Tail(arr))
RECURSIVE FlatEvents(_, _)
FlatEvents(map, evs) ==
    IF evs = << >> THEN << >>
    ELSE FlatEntries(map[Head(evs)].arr) \o FlatEvents(map, Tail(evs))
AllHooks(content) == FlatEvents(content.doc.hooks.map, EventOrder)
EventsBefore(ev) ==
    SubSeq(EventOrder, 1, (CHOOSE i \in DOMAIN EventOrder : EventOrder[i] = ev) - 1)
\* The place of the addressed hook in AllHooks of the file the call found.
FlatPosition ==
    LET map == last.before.doc.hooks.map
    IN  Len(FlatEvents(map, EventsBefore(last.eventType)))
        + Len(FlatEntries(SubSeq(map[last.eventType].arr, 1, last.matcherIndex)))
        + last.hookIndex + 1
OtherEventsKept ==
    \A ev \in EventTypes \ {last.eventType} :
        files[last.scope].doc.hooks.map[ev] = last.before.doc.hooks.map[ev]

\* C27: a hook mutation touches the addressed hook alone: a successful
\* deleteHook removes exactly the hook at (eventType, matcherIndex,
\* hookIndex), a successful updateHook replaces exactly that hook, a
\* successful addHook adds one hook; the count moves by -1, 0, +1 and every
\* other hook keeps its content and its place relative to the others.
C27_OnlyAddressedHook ==
    last.ok =>
        LET before == AllHooks(last.before)
            after == AllHooks(files[last.scope])
        IN  /\ OtherEventsKept
            /\ last.op = "deleteHook" =>
                  /\ Len(after) = Len(before) - 1
                  /\ after = RemoveAt(before, FlatPosition)
            /\ last.op = "updateHook" =>
                  /\ Len(after) = Len(before)
                  /\ after = [before EXCEPT ![FlatPosition] = StringifyHook(last.hook)]
            /\ last.op = "addHook" =>
                  /\ Len(after) = Len(before) + 1
                  /\ \E pos \in DOMAIN after :
                        /\ after[pos] = StringifyHook(last.hook)
                        /\ RemoveAt(after, pos) = before

C27_Witness ==
    /\ last.op = "updateHook" /\ last.ok /\ last.hookIndex = 1
    /\ Len(AllHooks(files[last.scope])) >= 3
    /\ AllHooks(files[last.scope])[FlatPosition] = StringifyHook(last.hook)
    /\ AllHooks(files[last.scope])[FlatPosition] # AllHooks(last.before)[FlatPosition]

\* C25: every hook item of the tree built from the files as they are holds
\* indices that address the displayed hook in its file:
\* file.hooks[eventType][matcherIndex].hooks[hookIndex] is the item's hook.
C25_ItemAddressesHook ==
    \A item \in HookItems(DiscoverHooks) :
        LET arr == JsonParse(files[item.configPath].doc).hooks.map[item.eventType].arr
            mi == item.matcherIndex + 1
            hi == item.hookIndex + 1
        IN  /\ mi \in DOMAIN arr
            /\ IsMatcherObj(arr[mi])
            /\ hi \in DOMAIN arr[mi].hooks
            /\ arr[mi].hooks[hi] = item.hook

(***************************************************************************)
(* Claims about file operations (checked under SpecFs).                    *)
(***************************************************************************)
MutationOps == {"moveToGlobal", "moveToProject"}

\* C5: a mutation operation that returns a failure result leaves the file
\* system, the set of directories included, exactly as it was before the
\* call began; a move whose rename step fails leaves no new directory behind.
C5_FailureLeavesFs ==
    out.op \in MutationOps /\ ~out.ok => fs = out.before

\* C6: moveToGlobal on an item of scope global, and moveToProject on an item
\* of scope project, return false after the 'already in ... scope' notice and
\* make no file-system call: the file system is as before.
C6_SameScopeNoOp ==
    /\ out.op = "moveToGlobal" /\ out.item.scope = "global" =>
          ~out.ok /\ out.msg = AlreadyGlobal /\ out.fsCalls = << >> /\ fs = out.before
    /\ out.op = "moveToProject" /\ out.item.scope = "project" =>
          ~out.ok /\ out.msg = AlreadyProject /\ out.fsCalls = << >> /\ fs = out.before

\* C6 happens: moveToProject was called on a project item whose file exists.
C6_Witness ==
    /\ out.op = "moveToProject" /\ out.item.scope = "project"
    /\ out.item.path \in DOMAIN fs
    /\ ~out.ok /\ out.msg = AlreadyProject

\* C7: with no workspace folder open, moveToProject on an item whose scope is
\* not project returns false with the error message and changes nothing on
\* the file system.
C7_NoWorkspaceFails ==
    out.op = "moveToProject" /\ ~ws /\ out.item.scope # "project" =>
        ~out.ok /\ out.msg = NoWorkspace /\ out.fsCalls = << >> /\ fs = out.before

\* C7 happens: no folder is open and moveToProject was called on a global
\* item whose file exists.
C7_Witness ==
    /\ out.op = "moveToProject" /\ ~ws /\ out.item.scope = "global"
    /\ out.item.path \in DOMAIN fs
    /\ ~out.ok /\ out.msg = NoWorkspace


\* The files of before that hold something else now.
Replaced == {p \in DOMAIN out.before \cap DOMAIN fs :
                out.before[p].kind = "file" /\ fs[p] # out.before[p]}

\* C28: a move replaces an existing file only after 'Overwrite' was chosen
\* for it: with Cancel or a dismissed warning nothing changes, and after
\* 'Rename' the source goes to the entered name and no file that was
\* already there is replaced.
C28_ReplaceOnlyOnOverwrite ==
    out.op \in MutationOps =>
        /\ out.arg.choice \in {"Cancel", Undefined} => ~out.ok /\ fs = out.before
        /\ Replaced # {} => out.arg.choice = "Overwrite"

(***************************************************************************)
(* Claims about discovery (checked under SpecDisc).                        *)
(***************************************************************************)
IsMemoryName(name) == \E i \in DOMAIN CLAUDE_MD_PATTERNS : CLAUDE_MD_PATTERNS[i] = name
\* The memory files of the project that are at neither canonical location.
SubdirMemories(f) ==
    {p \in DOMAIN f : /\ Under(WorkspaceFolder, p)
                      /\ f[p].kind = "file"
                      /\ IsMemoryName(Basename(p))
                      /\ Dirname(p) # WorkspaceFolder
                      /\ Dirname(p) # ProjectClaudePath}
\* A project with a memory file at its root, none in .claude, and no global one.
RootMemoryOnly(f) ==
    /\ FirstPattern(f, WorkspaceFolder) # {}
    /\ FirstPattern(f, ProjectClaudePath) = {}
    /\ FirstPattern(f, GlobalClaudePath) = {}
WithScope(result, scope) == {x \in BagToSet(result) : x.scope = scope}
\* Four items: the root file with scope project, three nested, none twice.
OneProjectThreeNested(f, result) ==
    /\ BagCardinality(result) = 4
    /\ \A x \in BagToSet(result) : CopiesIn(x, result) = 1
    /\ WithScope(result, "project") =
          {CreateClaudeFile(p, "memory", "project", Undefined) :
              p \in FirstPattern(f, WorkspaceFolder)}
    /\ Cardinality(WithScope(result, "nested")) = 3
    /\ \A x \in WithScope(result, "nested") : Dirname(x.path) # WorkspaceFolder

\* C9 as stated: with a memory file at the project root, three memory files
\* in subdirectories and no global memory file, discoverMemories returns
\* exactly four items, one of scope project for the root file and three of
\* scope nested, and the root file is not among the nested ones.
C9_RootAndThree ==
    /\ out.op = "discoverMemories" /\ ws
    /\ RootMemoryOnly(fs)
    /\ Cardinality(SubdirMemories(fs)) = 3
    => OneProjectThreeNested(fs, out.result)

\* C9 amended: the same, for three memory files in subdirectories that are
\* not below a node_modules directory; memory files below node_modules are
\* not returned at all.
C9_RootAndThreeSearched ==
    /\ out.op = "discoverMemories" /\ ws
    /\ RootMemoryOnly(fs)
    /\ Cardinality({p \in SubdirMemories(fs) : ~InNodeModules(p)}) = 3
    => /\ OneProjectThreeNested(fs, out.result)
       /\ \A x \in BagToSet(out.result) : ~InNodeModules(x.path)

\* C9 happens: a pass over a project with a root memory file and three
\* memory files in searched subdirectories, and one more below node_modules.
C9_Witness ==
    /\ out.op = "discoverMemories" /\ ws
    /\ RootMemoryOnly(fs)
    /\ Cardinality({p \in SubdirMemories(fs) : ~InNodeModules(p)}) = 3
    /\ \E p \in SubdirMemories(fs) : InNodeModules(p)
    /\ BagCardinality(out.result) = 4

DiscoveryOps ==
    {"discoverMemories", "discoverCommands", "discoverSkills", "discoverSubAgents"}

\* C10: within one discovery pass no two returned items of the same kind
\* have the same path; a memory file at <project>/.claude/CLAUDE.md is
\* returned once.
C10_PathsUnique ==
    out.op \in DiscoveryOps =>
        \A x \in BagToSet(out.result) :
            /\ CopiesIn(x, out.result) = 1
            /\ \A y \in BagToSet(out.result) :
                  x.path = y.path /\ x.type = y.type => x = y


\* The number of items of scope nested in a result, each counted as often
\* as it is returned.
NestedCount(result) ==
    BagCardinality([x \in WithScope(result, "nested") |-> CopiesIn(x, result)])

\* C24: the search for nested memory files is bounded: one discoverMemories
\* call returns at most 100 items of scope nested, however many files and
\* filename variants the project tree holds.
C24_AtMostHundredNested ==
    out.op = "discoverMemories" => NestedCount(out.result) <= MaxResults

(***************************************************************************)
(* PermissionsService.  A string is a sequence of characters; an entry of  *)
(* an allow / ask / deny array is a string or some other JSON value.       *)
(***************************************************************************)
MaxLen == 4
Alphabet == {"B", "(", ")", ":", " ", "\n"}
Strings == UNION {[1..n -> Alphabet] : n \in 0..MaxLen}

\* \w of the regular expression, over the characters the model uses.
WordChars == {"B", "a", "s", "h", "r", "m", "f", "l", "_"}
LineTerminators == {"\n", "\r"}
Star == << "*" >>

Str(s) == [kind |-> "string", s |-> s]
NonString == [kind |-> "other", s |-> << >>]

\* pattern.match(/^(\w+)[\(:](.*?)[\)]?$/), line 133.  (\w+) is the longest
\* run of word characters at the start, since the next character must be a
\* delimiter; (.*?) is lazy and '.' matches no line terminator, so the group
\* is the rest without its last character when that is ')', else the rest.
WordPrefix(s) ==
    IF \E k \in 1..Len(s) : s[k] \notin WordChars
    THEN Min({k \in 1..Len(s) : s[k] \notin WordChars}) - 1
    ELSE Len(s)
Rest(s) == SubSeq(s, WordPrefix(s) + 2, Len(s))
Matches(s) ==
    /\ WordPrefix(s) >= 1
    /\ WordPrefix(s) < Len(s)
    /\ s[WordPrefix(s) + 1] \in {"(", ":"}
    /\ \A i \in DOMAIN Rest(s) : Rest(s)[i] \notin LineTerminators
Group(s) ==
    IF Rest(s) # << >> /\ Rest(s)[Len(Rest(s))] = ")"
    THEN SubSeq(Rest(s), 1, Len(Rest(s)) - 1)
    ELSE Rest(s)

\* parsePermissionPattern(pattern), lines 129-146: calling .match on a value
\* that is not a string throws a TypeError.
ParsePermissionPattern(e) ==
    IF e.kind # "string" THEN [throws |-> TRUE, tool |-> << >>, pattern |-> << >>]
    ELSE IF Matches(e.s)
    THEN [throws |-> FALSE, tool |-> SubSeq(e.s, 1, WordPrefix(e.s)),
          pattern |-> IF Group(e.s) = << >> THEN Star ELSE Group(e.s)]
    ELSE [throws |-> FALSE, tool |-> e.s, pattern |-> Star]

\* A settings file as parsePermissions sees it: whether it parses, whether
\* config.permissions is an object, and permissions.allow / ask / deny, each
\* an array or not.
RuleTypes == << "allow", "ask", "deny" >>
NoList == [isArray |-> FALSE, arr |-> << >>]
List(arr) == [isArray |-> TRUE, arr |-> arr]
PermFile(allow, ask, deny) ==
    [kind |-> "json", hasPermissions |-> TRUE,
     lists |-> [allow |-> allow, ask |-> ask, deny |-> deny]]
NoPermissions ==
    [kind |-> "json", hasPermissions |-> FALSE,
     lists |-> [allow |-> NoList, ask |-> NoList, deny |-> NoList]]
PermGarbage == [NoPermissions EXCEPT !.kind = "garbage"]
PermAbsent == [NoPermissions EXCEPT !.kind = "absent"]

Rule(type, parsed) == [type |-> type, tool |-> parsed.tool, pattern |-> parsed.pattern]
\* for (const pattern of permissions.<type>) { ... rules.push(...) }
RulesOf(type, arr) == [i \in DOMAIN arr |-> Rule(type, ParsePermissionPattern(arr[i]))]
Throws(arr) == \E i \in DOMAIN arr : ParsePermissionPattern(arr[i]).throws

\* parsePermissions(configPath, location), lines 59-127: the rules of the
\* three arrays in order; [] when the file cannot be read or parsed, has no
\* permissions object, or anything inside the try block throws.
ParsePermissions(file) ==
    IF file.kind # "json" \/ ~file.hasPermissions THEN << >>
    ELSE IF \E t \in DOMAIN file.lists : file.lists[t].isArray /\ Throws(file.lists[t].arr)
    THEN << >>
    ELSE RulesOf("allow", file.lists["allow"].arr)
         \o RulesOf("ask", file.lists["ask"].arr)
         \o RulesOf("deny", file.lists["deny"].arr)

ParsePermissionsCall ==
    /\ out' = Out("parsePermissions", NoItem, Result(TRUE, "none", fs, << >>), fs,
                  ParsePermissions(perm))
    /\ UNCHANGED <<perm, watch, proc, ws, files, dirs, last, prev, calls, orig, fs, view>>

(***************************************************************************)
(* SpecPerm: parsing the permissions of a settings file.  The file holds   *)
(* one entry, any string of the alphabet, in one of the three arrays, or a *)
(* mix of well-formed and malformed entries.                               *)
(***************************************************************************)
BashLs == Str(<< "B", "a", "s", "h", "(", "l", "s", ")" >>)
BashRm == Str(<< "B", "a", "s", "h", "(", "r", "m", " ", "-", "r", "f", " ", "/", ")" >>)
MixedEntries == {BashLs, BashRm, NonString, Str(<< "(", "(" >>)}
MixedLists ==
    {NoList} \cup {List(<< >>)} \cup {List(<< e >>) : e \in MixedEntries}
    \cup {List(<< e1, e2 >>) : e1 \in MixedEntries, e2 \in MixedEntries}
OneEntryFiles ==
    {PermFile(List(<< Str(s) >>), NoList, NoList) : s \in Strings}
    \cup {PermFile(NoList, List(<< Str(s) >>), NoList) : s \in Strings}
    \cup {PermFile(NoList, NoList, List(<< Str(s) >>)) : s \in Strings}
MixedFiles ==
    {PermFile(a, NoList, d) : a \in MixedLists, d \in MixedLists}
    \cup {PermFile(NoList, a, NoList) : a \in MixedLists}

InitPerm ==
    /\ perm \in OneEntryFiles \cup MixedFiles \cup {NoPermissions, PermGarbage, PermAbsent}
    /\ ws \in BOOLEAN
    /\ fs = BaseFs
    /\ view = EmptyBag
    /\ out = NoOut
    /\ calls = 0
    /\ files = [sc \in Scopes |-> Absent]
    /\ dirs = [sc \in Scopes |-> FALSE]
    /\ last = NoCall
    /\ prev = NoCall
    /\ orig = files
    /\ watch = NoWatch
    /\ proc = NoProc

NextPerm == ParsePermissionsCall

SpecPerm == InitPerm /\ [][NextPerm]_vars

(***************************************************************************)
(* PermissionsService.discoverPermissions over the four settings files.    *)
(* Here perm holds the platform and the file found at each settings path.  *)
(***************************************************************************)
\* A file that stat() finds but readFile cannot read.
PermUnreadable == [NoPermissions EXCEPT !.kind = "unreadable"]
\* fileExists(filePath), lines 163-170.
PermFileExists(file) == file.kind # "absent"

Platforms == {"darwin", "win32", "linux", "freebsd"}
\* getManagedSettingsPaths(), lines 148-161.
GetManagedSettingsPaths(platform) ==
    CASE platform = "darwin" ->
             << "/Library/Application Support/ClaudeCode/managed-settings.json" >>
      [] platform = "win32" -> << "C:\\ProgramData\\ClaudeCode\\managed-settings.json" >>
      [] platform = "linux" -> << "/etc/claude-code/managed-settings.json" >>
      [] OTHER -> << >>

UserSettingsPath == "~/.claude/settings.json"
ProjectSettingsPath == "<workspace>/.claude/settings.json"
LocalSettingsPath == "<workspace>/.claude/settings.local.json"
UserLocation == "User (~/.claude)"
ProjectLocation == "Project (.claude)"
LocalLocation == "Local (.claude)"
ManagedLocation == "Managed (Enterprise)"

\* The rule parsePermissions pushes (lines 78-84, 93-99, 108-114) carries the
\* location and configPath it was called with.
ParsePermissionsAt(file, configPath, location) ==
    LET rules == ParsePermissions(file)
    IN  [i \in DOMAIN rules |->
            [type |-> rules[i].type, tool |-> rules[i].tool, pattern |-> rules[i].pattern,
             location |-> location, configPath |-> configPath]]

\* if (await this.fileExists(p)) { rules.push(...await this.parsePermissions(p, location)) }
RulesIfExists(file, configPath, location) ==
    IF PermFileExists(file) THEN ParsePermissionsAt(file, configPath, location) ELSE << >>

\* for (const managedPath of managedPaths) { if (exists) { ...; break } }, lines 46-53.
ManagedRules(p) ==
    LET managedPaths == GetManagedSettingsPaths(p.platform)
    IN  IF managedPaths = << >> THEN << >>
        ELSE RulesIfExists(p.managed, managedPaths[1], ManagedLocation)

\* A variant that reads the local overrides before the project settings.
DiscoverPermissionsLocalFirst(p, w) ==
    RulesIfExists(p.user, UserSettingsPath, UserLocation)
    \o (IF w THEN RulesIfExists(p.local, LocalSettingsPath, LocalLocation)
                  \o RulesIfExists(p.project, ProjectSettingsPath, ProjectLocation)
        ELSE << >>)
    \o ManagedRules(p)

\* discoverPermissions(), lines 15-57.
DiscoverPermissions(p, w) ==
    RulesIfExists(p.user, UserSettingsPath, UserLocation)
    \o (IF w THEN RulesIfExists(p.project, ProjectSettingsPath, ProjectLocation)
                  \o RulesIfExists(p.local, LocalSettingsPath, LocalLocation)
        ELSE << >>)
    \o ManagedRules(p)

\* What the try block of parsePermissions throws: readFile, JSON.parse, or
\* pattern.match on an entry that is not a string.
ParsePermissionsThrows(file) ==
    \/ file.kind # "json"
    \/ /\ file.hasPermissions
       /\ \E t \in DOMAIN file.lists : file.lists[t].isArray /\ Throws(file.lists[t].arr)
\* Whether an exception leaves discoverPermissions: fileExists and
\* parsePermissions each catch their own, discoverPermissions has no try.
DiscoverPermissionsRaises(p, w) ==
    \E file \in {p.user} \cup (IF w THEN {p.project, p.local} ELSE {})
                 \cup (IF GetManagedSettingsPaths(p.platform) = << >> THEN {}
                       ELSE {p.managed}) :
        \/ Caught(file.kind = "absent")
        \/ PermFileExists(file) /\ Caught(ParsePermissionsThrows(file))

DiscoverPermissionsCall ==
    /\ out.op = "none"
    /\ out' = Out("discoverPermissions", NoItem,
                  Result(~DiscoverPermissionsRaises(perm, ws), "none", fs, << >>), fs,
                  DiscoverPermissions(perm, ws))
    /\ UNCHANGED <<perm, watch, proc, ws, files, dirs, last, prev, calls, orig, fs, view>>

(***************************************************************************)
(* SpecPermAll: one discovery of the permissions.  Each settings path      *)
(* holds no file, an unreadable file, a file that is not JSON, a file      *)
(* without a permissions object, or one of three files with rules; the     *)
(* project paths exist only with a workspace folder, the managed path only *)
(* on a platform that has one.                                             *)
(***************************************************************************)
LsAndRm == PermFile(List(<< BashLs >>), NoList, List(<< BashRm >>))
AllThree == PermFile(List(<< BashLs, BashRm >>), List(<< BashLs >>), List(<< >>))
WithNumber == PermFile(List(<< BashLs, NonString >>), NoList, NoList)
SettingsFiles ==
    {PermAbsent, PermUnreadable, PermGarbage, NoPermissions, LsAndRm, AllThree, WithNumber}

InitPermAll ==
    /\ ws \in BOOLEAN
    /\ perm \in [platform : Platforms, user : SettingsFiles,
                 project : IF ws THEN SettingsFiles ELSE {PermAbsent},
                 local : IF ws THEN SettingsFiles ELSE {PermAbsent},
                 managed : SettingsFiles]
    /\ GetManagedSettingsPaths(perm.platform) = << >> => perm.managed = PermAbsent
    /\ fs = BaseFs
    /\ view = EmptyBag
    /\ out = NoOut
    /\ calls = 0
    /\ files = [sc \in Scopes |-> Absent]
    /\ dirs = [sc \in Scopes |-> FALSE]
    /\ last = NoCall
    /\ prev = NoCall
    /\ orig = files
    /\ watch = NoWatch
    /\ proc = NoProc

NextPermAll == DiscoverPermissionsCall

SpecPermAll == InitPermAll /\ [][NextPermAll]_vars

(***************************************************************************)
(* SpecFaults: discovery over settings files and directories that are      *)
(* missing, unreadable or not JSON.  One of the three is varied at a time: *)
(* the permission settings, the hook settings, or the directory trees.     *)
(***************************************************************************)
GitPush == ProjectClaudePath \o << COMMANDS_DIR, N("git", ""), N("push", "md") >>
GlobalMcp == Join(GlobalClaudePath, McpConfig)
ProjectMcpServer == ProjectClaudePath \o << MCP_DIR, N("db", "json") >>
FaultArtifacts ==
    { Artifact(GlobalDeploy, "deploy"), Artifact(ProjectCommit, "commit"),
      Artifact(GitPush, "push"), Artifact(PdfSkill, "skill"),
      Artifact(GlobalMcp, "servers"), Artifact(ProjectMcpServer, "db") }
Lockable ==
    { Join(GlobalClaudePath, COMMANDS_DIR), Dirname(GitPush),
      Join(GlobalClaudePath, SKILLS_DIR), Join(ProjectClaudePath, MCP_DIR) }
WithUnreadable(f, U) == [p \in DOMAIN f |-> IF p \in U THEN UnreadableDir ELSE f[p]]
FaultTrees ==
    {WithUnreadable(WithFiles(S), U) : S \in SUBSET FaultArtifacts, U \in SUBSET Lockable}
FaultSettings ==
    [platform : {"linux"}, user : SettingsFiles, project : {PermAbsent},
     local : IF ws THEN {PermGarbage, PermUnreadable, LsAndRm} ELSE {PermAbsent},
     managed : {PermAbsent, AllThree}]
TwoEntries ==
    Json(Settings(HooksObj(OneEvent("PreToolUse",
        << Entry("Bash", <<LintHook>>), Entry("*", <<ReviewHook>>) >>)), "permissions"))
FaultContents == InitContents \cup {Unreadable, TwoEntries}
NoSettingsFiles ==
    [platform |-> "linux", user |-> PermAbsent, project |-> PermAbsent,
     local |-> PermAbsent, managed |-> PermAbsent]

InitFaults ==
    /\ ws \in BOOLEAN
    /\ \/ /\ perm \in FaultSettings
          /\ files = [sc \in Scopes |-> Absent]
          /\ fs = BaseFs
       \/ /\ perm = NoSettingsFiles
          /\ files \in [Scopes -> FaultContents]
          /\ ~ws => files["local"] = Absent
          /\ fs = BaseFs
       \/ /\ perm = NoSettingsFiles
          /\ files = [sc \in Scopes |-> Absent]
          /\ fs \in FaultTrees
    /\ view = EmptyBag
    /\ out = NoOut
    /\ calls = 0
    /\ dirs = [sc \in Scopes |-> FALSE]
    /\ last = NoCall
    /\ prev = NoCall
    /\ orig = files
    /\ watch = NoWatch
    /\ proc = NoProc

NextFaults ==
    \/ DiscoverPermissionsCall
    \/ DiscoverHooksPass
    \/ DiscoverMcpServersPass
    \/ DiscoverCommandsPass
    \/ DiscoverSkillsPass

SpecFaults == InitFaults /\ [][NextFaults]_vars

(***************************************************************************)
(* Claims about permissions (checked under SpecPerm).                      *)
(***************************************************************************)
\* The shapes of an entry, read off the string itself: a tool of word
\* characters, then '(' pattern ')' or ':' pattern with a pattern that is not
\* empty, or a bare word.
IsWord(s) == s # << >> /\ \A i \in DOMAIN s : s[i] \in WordChars
ParenShape(s, k) ==
    /\ IsWord(SubSeq(s, 1, k)) /\ Len(s) >= k + 3
    /\ s[k + 1] = "(" /\ s[Len(s)] = ")"
ColonShape(s, k) ==
    /\ IsWord(SubSeq(s, 1, k)) /\ Len(s) >= k + 2
    /\ s[k + 1] = ":"
Shaped(s) == IsWord(s) \/ \E k \in 1..Len(s) : ParenShape(s, k) \/ ColonShape(s, k)
ShapeTool(s) ==
    IF IsWord(s) THEN s
    ELSE SubSeq(s, 1, CHOOSE k \in 1..Len(s) : ParenShape(s, k) \/ ColonShape(s, k))
ShapePattern(s) ==
    IF IsWord(s) THEN Star
    ELSE LET k == CHOOSE k \in 1..Len(s) : ParenShape(s, k) \/ ColonShape(s, k)
         IN  IF ParenShape(s, k) THEN SubSeq(s, k + 2, Len(s) - 1)
             ELSE SubSeq(s, k + 2, Len(s))
\* The file holds one entry, a string, in the array of the type.
OneEntry(file, type) ==
    /\ file.kind = "json" /\ file.hasPermissions
    /\ \A t \in DOMAIN file.lists :
          IF t = type
          THEN file.lists[t].isArray /\ Len(file.lists[t].arr) = 1
               /\ file.lists[t].arr[1].kind = "string"
          ELSE ~file.lists[t].isArray

\* C11: an entry of the shape Tool(pattern) or Tool:pattern parses to exactly
\* (Tool, pattern), a bare word to (word, "*"), also when the pattern holds
\* parentheses or ends in ')' in the Tool:pattern form; the file with the one
\* entry yields the one rule of the array's type.
C11_ParsesShape ==
    \A type \in {"allow", "ask", "deny"} :
        /\ out.op = "parsePermissions"
        /\ OneEntry(perm, type)
        /\ Shaped(perm.lists[type].arr[1].s)
        => out.result = << [type |-> type,
                            tool |-> ShapeTool(perm.lists[type].arr[1].s),
                            pattern |-> ShapePattern(perm.lists[type].arr[1].s)] >>

ListLen(file, t) == IF file.lists[t].isArray THEN Len(file.lists[t].arr) ELSE 0
Offset(file, t) ==
    CASE t = "allow" -> 0
      [] t = "ask" -> ListLen(file, "allow")
      [] t = "deny" -> ListLen(file, "allow") + ListLen(file, "ask")
NoDelimiter(s) == \A i \in DOMAIN s : s[i] \notin {"(", ":"}

\* C12: parsing an entry never throws: the file yields one rule for each
\* entry of its arrays, of the array's type, so the well-formed entries are
\* returned whatever else the file holds, and an entry that does not fit the
\* shape becomes the rule with the whole entry as tool and pattern "*".
C12_MalformedFallsBack ==
    /\ out.op = "parsePermissions"
    /\ perm.kind = "json" /\ perm.hasPermissions
    => /\ Len(out.result) =
             ListLen(perm, "allow") + ListLen(perm, "ask") + ListLen(perm, "deny")
       /\ \A t \in DOMAIN perm.lists : \A i \in 1..ListLen(perm, t) :
             LET e == perm.lists[t].arr[i]
                 r == out.result[Offset(perm, t) + i]
             IN  /\ r.type = t
                 /\ e.kind = "string" /\ NoDelimiter(e.s) =>
                        r.tool = e.s /\ r.pattern = Star

\* The settings files in the order discoverPermissions reads them, each with
\* the path and location its rules are tagged with.
SettingsOrder ==
    << [file |-> perm.user, configPath |-> UserSettingsPath, location |-> UserLocation],
       [file |-> perm.project, configPath |-> ProjectSettingsPath,
        location |-> ProjectLocation],
       [file |-> perm.local, configPath |-> LocalSettingsPath, location |-> LocalLocation],
       [file |-> perm.managed,
        configPath |-> IF GetManagedSettingsPaths(perm.platform) = << >> THEN "none"
                       ELSE GetManagedSettingsPaths(perm.platform)[1],
        location |-> ManagedLocation] >>
RulesBefore(k) ==
    IF k = 1 THEN 0
    ELSE IF k = 2 THEN Len(ParsePermissions(SettingsOrder[1].file))
    ELSE IF k = 3 THEN Len(ParsePermissions(SettingsOrder[1].file))
                       + Len(ParsePermissions(SettingsOrder[2].file))
    ELSE Len(ParsePermissions(SettingsOrder[1].file))
         + Len(ParsePermissions(SettingsOrder[2].file))
         + Len(ParsePermissions(SettingsOrder[3].file))

\* C22: discoverPermissions returns the rules of the user settings, then of
\* the project settings, then of the project local settings, then of the
\* managed settings: as many entries as the four files have rules together
\* (nothing is merged), the i-th rule of the k-th file standing after all
\* rules of the files before it, with that rule's type, tool and pattern and
\* with the configPath and location of the k-th file.
C22_ConcatenatedInOrder ==
    out.op = "discoverPermissions" =>
        /\ Len(out.result) = RulesBefore(4) + Len(ParsePermissions(SettingsOrder[4].file))
        /\ \A k \in 1..4 :
             LET rules == ParsePermissions(SettingsOrder[k].file)
             IN  \A i \in DOMAIN rules :
                    LET r == out.result[RulesBefore(k) + i]
                    IN  /\ r.type = rules[i].type
                        /\ r.tool = rules[i].tool
                        /\ r.pattern = rules[i].pattern
                        /\ r.configPath = SettingsOrder[k].configPath
                        /\ r.location = SettingsOrder[k].location
\* The same rule string allowed in two files is returned twice, once for each file.
C22_Witness ==
    /\ out.op = "discoverPermissions"
    /\ \E i, j \in DOMAIN out.result :
          /\ i < j
          /\ out.result[i].type = out.result[j].type
          /\ out.result[i].tool = out.result[j].tool
          /\ out.result[i].pattern = out.result[j].pattern
          /\ out.result[i].configPath = UserSettingsPath
          /\ out.result[j].configPath = LocalSettingsPath
    /\ Len(ParsePermissions(perm.project)) > 0
    /\ Len(ParsePermissions(perm.managed)) > 0

(***************************************************************************)
(* Claims about the command handlers (checked under SpecEdit).             *)
(***************************************************************************)
EditOps == {"deleteFile", "renameFile", "createCommand"}

\* C29: a command whose mutation returned success has called refreshAll()
\* after the write, and a command whose mutation failed or was cancelled has
\* not called it.
C29_RefreshIffSuccess ==
    out.op \in EditOps => (out.refreshed <=> out.ok)

(***************************************************************************)
(* Claims about discovery over faulty files (checked under SpecFaults).    *)
(***************************************************************************)
FaultyKinds == {"absent", "unreadable", "garbage"}
\* A settings file whose entries are all strings.
Sound(file) ==
    /\ file.kind = "json" /\ file.hasPermissions
    /\ \A t \in DOMAIN file.lists : \A i \in 1..ListLen(file, t) :
          file.lists[t].arr[i].kind = "string"
RulesFrom(result, configPath) ==
    Cardinality({i \in DOMAIN result : result[i].configPath = configPath})
PermissionsSurvive ==
    \A k \in 1..4 :
        LET file == SettingsOrder[k].file
            n == RulesFrom(out.result, SettingsOrder[k].configPath)
        IN  /\ file.kind \in FaultyKinds => n = 0
            /\ Sound(file) =>
                   n = ListLen(file, "allow") + ListLen(file, "ask") + ListLen(file, "deny")
HooksSurvive ==
    \A sc \in Scopes :
        LET found == {c \in DOMAIN out.result : out.result[c].configPath = sc}
        IN  /\ files[sc].kind \in FaultyKinds => found = {}
            /\ files[sc] = TwoEntries /\ HasSettingsPath(sc) =>
                   \E c \in found : Len(out.result[c].matchers) = 2

DirectoryOps == {"discoverCommands", "discoverSkills", "discoverMcpServers"}
SearchedDir(op) ==
    CASE op = "discoverCommands" -> COMMANDS_DIR
      [] op = "discoverSkills" -> SKILLS_DIR
      [] op = "discoverMcpServers" -> MCP_DIR
Searched(op) ==
    IF op = "discoverMcpServers" THEN MARKDOWN_EXTENSIONS \cup JSON_EXTENSIONS
    ELSE MARKDOWN_EXTENSIONS
Bases == {GlobalClaudePath} \cup (IF ws THEN {ProjectClaudePath} ELSE {})
NothingUnreadableAbove(p) == \A a \in Prefixes(Dirname(p)) : fs[a] # UnreadableDir
DirectoriesSurvive ==
    LET paths == {x.path : x \in BagToSet(out.result)}
    IN  /\ \A p \in paths : p \in DOMAIN fs /\ NothingUnreadableAbove(p)
        /\ \A p \in DOMAIN fs :
              /\ fs[p].kind = "file" /\ NothingUnreadableAbove(p)
              /\ LowerExt(Basename(p)) \in Searched(out.op)
              /\ \E base \in Bases : Under(Join(base, SearchedDir(out.op)), p)
              => p \in paths
        /\ out.op = "discoverMcpServers" =>
              \A base \in Bases : Join(base, McpConfig) \in DOMAIN fs =>
                  Join(base, McpConfig) \in paths

DeletedOneFile ==
    /\ out.op = "deleteFile" /\ out.ok
    /\ out.before[out.item.path].kind = "file"
Unlinked == Remove(out.before, out.item.path)
ParentOfDeleted == Dirname(out.item.path)

\* C14 as stated: deleting a single file removes it, and then its parent
\* directory exactly when the parent's own name is skills, agents or commands
\* and the parent is now empty, so that a skill's own folder stays.
C14_ParentNamed ==
    DeletedOneFile =>
        fs = IF Basename(ParentOfDeleted) \in GroupingNames
                /\ IsEmptyDir(Unlinked, ParentOfDeleted)
             THEN Remove(Unlinked, ParentOfDeleted) ELSE Unlinked

\* C14: deleting a single file removes it, and then its parent directory
\* exactly when the parent lies directly inside a directory named skills,
\* agents or commands and the parent is now empty: a skill's own folder
\* skills/<name>/ goes with its last file, the commands directory stays.
C14_ParentInsideNamed ==
    DeletedOneFile =>
        LET inside == /\ Len(ParentOfDeleted) >= 2
                      /\ Basename(Dirname(ParentOfDeleted)) \in GroupingNames
        IN  /\ out.item.path \notin DOMAIN fs
            /\ fs = IF inside /\ IsEmptyDir(Unlinked, ParentOfDeleted)
                    THEN Remove(Unlinked, ParentOfDeleted) ELSE Unlinked

C14_Witness ==
    /\ DeletedOneFile
    /\ out.item.path = PdfSkill
    /\ Dirname(PdfSkill) \in DOMAIN out.before
    /\ Dirname(PdfSkill) \notin DOMAIN fs
    /\ Dirname(Dirname(PdfSkill)) \in DOMAIN fs

\* C15: deleteFile removes nothing unless the answer to the confirmation is
\* 'Delete': any other answer returns false and leaves the file system as it
\* was; with the confirmation a directory target is removed with everything
\* beneath it, and nothing else is.
C15_DeleteNeedsConfirmation ==
    out.op = "deleteFile" =>
        /\ out.arg # "Delete" => ~out.ok /\ fs = out.before
        /\ fs # out.before => out.arg = "Delete"
        /\ ( /\ out.arg = "Delete"
             /\ out.item.path \in DOMAIN out.before
             /\ out.before[out.item.path].kind = "dir" ) =>
                /\ out.ok
                /\ DOMAIN fs = {p \in DOMAIN out.before : ~IsPrefix(out.item.path, p)}
                /\ \A p \in DOMAIN fs : fs[p] = out.before[p]

C15_Witness ==
    /\ out.op = "deleteFile" /\ out.arg = "Delete" /\ out.ok
    /\ out.item.path = Dirname(ProjectCommit)
    /\ ProjectCommit \in DOMAIN out.before
    /\ ProjectCommit \notin DOMAIN fs
    /\ Dirname(ProjectCommit) \notin DOMAIN fs

(***************************************************************************)
(* Claims about renameFile and createFile.                                 *)
(***************************************************************************)
\* The target of the rename: same directory, the typed base name, the
\* extension of the source for a file.
RenameTarget ==
    Join(Dirname(out.item.path),
         N(out.arg, IF out.item.isDirectory = "true" THEN ""
                    ELSE Basename(out.item.path).e))
RenameAsked ==
    /\ out.op = "renameFile"
    /\ out.arg # "" /\ out.arg # Basename(out.item.path).b
    /\ out.item.path \in DOMAIN out.before

\* C16: renameFile never replaces an existing entry: when the target path
\* (same directory, new base name, the extension kept for a file) exists it
\* returns false with the 'already exists' error and the file system is as
\* before; on success the source path is gone, the target did not exist
\* before and now holds what the source held, and nothing else changed.
C16_RenameNeverReplaces ==
    RenameAsked =>
        /\ RenameTarget \in DOMAIN out.before =>
              ~out.ok /\ out.msg = AlreadyExists /\ fs = out.before
        /\ out.ok =>
              /\ RenameTarget \notin DOMAIN out.before
              /\ out.item.path \notin DOMAIN fs
              /\ RenameTarget \in DOMAIN fs
              /\ fs[RenameTarget] = out.before[out.item.path]
              /\ Basename(RenameTarget).e = Basename(out.item.path).e
              /\ \A p \in DOMAIN out.before :
                    ~IsPrefix(out.item.path, p) => p \in DOMAIN fs /\ fs[p] = out.before[p]

C16_Witness ==
    /\ RenameAsked
    /\ out.item.path = ProjectDeploy
    /\ RenameTarget \in DOMAIN out.before
    /\ out.msg = AlreadyExists
    /\ fs[RenameTarget].content = CommandTemplate
    /\ fs[ProjectDeploy].content = "project deploy"

Collision == out.op = "createCommand" /\ out.item.path \in DOMAIN out.before

\* C17: on a name collision createFile takes 'Overwrite' or nothing: with any
\* other answer no path is returned and the existing file is as it was; when
\* a path is returned, after 'Overwrite' or without a collision, the file at
\* that path holds exactly the supplied content.
C17_OverwriteOrNothing ==
    out.op = "createCommand" =>
        /\ Collision /\ out.arg # "Overwrite" =>
              ~out.ok /\ fs[out.item.path] = out.before[out.item.path]
        /\ out.ok =>
              /\ Collision => out.arg = "Overwrite"
              /\ out.item.path \in DOMAIN fs
              /\ fs[out.item.path] = FileNode(CommandTemplate)
        /\ ( /\ Collision => out.arg = "Overwrite" /\ out.before[out.item.path].kind = "file"
             /\ out.item.scope = "project" => ws ) => out.ok

C17_Witness ==
    /\ Collision /\ out.arg = "Overwrite" /\ out.ok
    /\ out.before[out.item.path].content = "project deploy"
    /\ fs[out.item.path].content = CommandTemplate

\* No command in either scope: neither commands directory has an entry.
NoCommands(f) ==
    ~\E p \in DOMAIN f :
        \/ Under(Join(GlobalClaudePath, COMMANDS_DIR), p)
        \/ Under(Join(ProjectClaudePath, COMMANDS_DIR), p)

CreatedDeployInEmptyProject ==
    /\ out.op = "createCommand" /\ ws
    /\ out.item.path = ProjectDeploy
    /\ ~\E p \in DOMAIN out.before : Under(WorkspaceFolder, p)
    /\ NoCommands(out.before)

\* C18: in a project directory with nothing in it, and no global command,
\* creating the project command deploy makes .claude/commands/deploy.md
\* with the supplied content, and discoverCommands then returns exactly one
\* item: that path, scope project, not a directory item.
C18_CreateThenDiscover ==
    CreatedDeployInEmptyProject =>
        /\ out.ok
        /\ fs[ProjectDeploy] = FileNode(CommandTemplate)
        /\ \E item \in BagToSet(DiscoverCommands(fs, ws)) :
              /\ DiscoverCommands(fs, ws) = SetToBag({item})
              /\ item.path = ProjectDeploy
              /\ item.scope = "project"
              /\ item.type = "command"
              /\ item.isDirectory # "true"

C18_Witness ==
    /\ CreatedDeployInEmptyProject
    /\ ProjectDeploy \in DOMAIN fs
    /\ BagCardinality(DiscoverCommands(fs, ws)) = 1

(***************************************************************************)
(* The file watcher of extension.ts.  Time is counted in units of 100 ms;  *)
(* a timer runs its callback at the instant it is due, and a timer that is *)
(* due runs before an event of the same instant is delivered (the event    *)
(* loop serves timers first).  refreshTimeout is local to one call of      *)
(* setupFileWatcher: a timer set by an earlier call stays in the event     *)
(* loop with nothing left that could clear it.  Such timers due at the     *)
(* same instant are counted once.                                          *)
(***************************************************************************)
\* setTimeout(refreshCallback, 300): 300 ms
DebounceDelay == 3
MaxTime == 7
WatcherEvents == {"create", "change", "delete"}

NoTimeout == [pending |-> FALSE, due |-> 0]
Due(w) ==
    \/ w.refreshTimeout.pending /\ w.refreshTimeout.due = w.now
    \/ w.now \in w.orphans

\* if (refreshTimeout) clearTimeout(refreshTimeout);
\* refreshTimeout = setTimeout(refreshCallback, 300)
SetTimeout(timeout, now) == [pending |-> TRUE, due |-> now + DebounceDelay]

\* debouncedRefresh, registered for onDidCreate, onDidChange, onDidDelete
DebouncedRefresh(kind) ==
    /\ watch.fileWatcher
    /\ ~Due(watch)
    /\ watch' = [watch EXCEPT !.refreshTimeout = SetTimeout(@, watch.now),
                              !.lastEvent = kind,
                              !.notes = @ \cup {watch.now}]
    /\ UNCHANGED <<perm, proc, ws, files, dirs, last, prev, calls, orig, fs, view, out>>

\* A timer runs refreshCallback, which is refreshAll.
RefreshCallback ==
    /\ Due(watch)
    /\ watch' = [watch EXCEPT
           !.refreshTimeout = IF @.pending /\ @.due = watch.now THEN NoTimeout ELSE @,
           !.orphans = IF watch.refreshTimeout.pending
                           /\ watch.refreshTimeout.due = watch.now
                        THEN @ ELSE @ \ {watch.now},
           !.refreshes = Append(@, watch.now),
           !.staleFired = @ \/ ~(watch.refreshTimeout.pending
                                    /\ watch.refreshTimeout.due = watch.now)]
    /\ view' = Refresh(fs, ws)
    /\ UNCHANGED <<perm, proc, ws, files, dirs, last, prev, calls, orig, fs, out>>

\* The timers left behind when the closure of a setupFileWatcher call is
\* no longer reachable from a watcher.
Orphaned(w) ==
    w.orphans \cup (IF w.refreshTimeout.pending THEN {w.refreshTimeout.due} ELSE {})

\* onDidChangeConfiguration for claudeCodeManager.autoRefresh, lines 898-910:
\* set up the watcher anew (the one in place is disposed, lines 924-926), or
\* dispose the one in place.
ConfigurationChanged(autoRefresh) ==
    /\ ~Due(watch)
    /\ ~watch.deactivated
    /\ autoRefresh \/ watch.fileWatcher
    /\ watch' = [watch EXCEPT !.fileWatcher = autoRefresh,
                              !.orphans = Orphaned(watch),
                              !.refreshTimeout = NoTimeout]
    /\ UNCHANGED <<perm, proc, ws, files, dirs, last, prev, calls, orig, fs, view, out>>

\* deactivate(), lines 956-960: the watcher in place is disposed; the
\* configuration listener went with the extension's subscriptions.
Deactivate ==
    /\ ~Due(watch)
    /\ ~watch.deactivated
    /\ watch' = [watch EXCEPT !.deactivated = TRUE,
                              !.fileWatcher = FALSE,
                              !.orphans = Orphaned(watch),
                              !.refreshTimeout = NoTimeout]
    /\ UNCHANGED <<perm, proc, ws, files, dirs, last, prev, calls, orig, fs, view, out>>

\* 100 ms pass.
Tick ==
    /\ watch.now < MaxTime
    /\ ~Due(watch)
    /\ watch' = [watch EXCEPT !.now = @ + 1]
    /\ UNCHANGED <<perm, proc, ws, files, dirs, last, prev, calls, orig, fs, view, out>>

\* activate(), lines 890-894: the watcher is set up when autoRefresh is on.
InitWatch ==
    /\ ws \in BOOLEAN
    /\ fs = WithFiles(EditArtifacts)
    /\ view = Refresh(fs, ws)
    /\ out = NoOut
    /\ calls = 0
    /\ files = [sc \in Scopes |-> Absent]
    /\ dirs = [sc \in Scopes |-> FALSE]
    /\ last = NoCall
    /\ prev = NoCall
    /\ orig = files
    /\ perm = NoPerm
    /\ watch \in {[NoWatch EXCEPT !.fileWatcher = autoRefresh] : autoRefresh \in BOOLEAN}
    /\ proc = NoProc

NextWatch ==
    \/ \E kind \in WatcherEvents : DebouncedRefresh(kind)
    \/ RefreshCallback
    \/ \E autoRefresh \in BOOLEAN : ConfigurationChanged(autoRefresh)
    \/ Deactivate
    \/ Tick

SpecWatch == InitWatch /\ [][NextWatch]_vars

\* The last notification of a burst: none follows it within the delay.
LastOfBurst(n) ==
    /\ n \in watch.notes
    /\ ~\E m \in watch.notes : n < m /\ m < n + DebounceDelay
RefreshesAt(t) == {i \in DOMAIN watch.refreshes : watch.refreshes[i] = t}

\* C19: the watcher debounces: a burst of notifications, each less than
\* 300 ms after the one before, is followed by exactly one refresh, 300 ms
\* after its last notification; every refresh of the watcher is such a one;
\* and two refreshes of the watcher are at least 300 ms apart.
C19_Debounced ==
    /\ \A n \in watch.notes :
          LastOfBurst(n) /\ watch.now > n + DebounceDelay =>
              Cardinality(RefreshesAt(n + DebounceDelay)) = 1
    /\ \A i \in DOMAIN watch.refreshes :
          /\ LastOfBurst(watch.refreshes[i] - DebounceDelay)
          /\ Cardinality(RefreshesAt(watch.refreshes[i])) = 1
    /\ \A i, j \in DOMAIN watch.refreshes :
          i < j => watch.refreshes[j] - watch.refreshes[i] >= DebounceDelay


\* C30: once a watcher is disposed (autoRefresh switched off, the watcher
\* replaced by a new setup, the extension deactivated) no refresh that it
\* scheduled fires, and there is never more than one pending debounce timer.
C30_DisposedIsSilent ==
    /\ ~watch.staleFired
    /\ Cardinality(Orphaned(watch)) <= 1

(***************************************************************************)
(* Hook mutations that overlap.  A mutation is an async function: between *)
(* its awaits another mutation runs.  fs.promises.writeFile is not one     *)
(* step either: it opens the file with flag 'w', which truncates it, and   *)
(* then writes the text from position 0 of its own file handle; Node's     *)
(* documentation calls a second writeFile on the same file before the      *)
(* first has settled unsafe.  A text written over a longer one that was    *)
(* written after the truncation leaves the end of the longer one in place. *)
(***************************************************************************)
Tasks == {1, 2}
Other(p) == CHOOSE q \in Tasks : q # p

\* A file opened with 'w' and not written yet, and a text followed by what
\* is left of a longer one.
Empty == [kind |-> "empty", doc |-> EmptySettings]
Mixed(settings, longer) ==
    [kind |-> "mix", doc |-> JsonStringify(settings), tail |-> JsonStringify(longer)]

\* The length of JSON.stringify(settings, null, 2), counted in the keys and
\* elements it prints; texts of the same count are taken to have the same
\* length.
RECURSIVE HooksLength(_)
HooksLength(hs) ==
    IF hs = << >> THEN 0
    ELSE 1 + Cardinality({k \in HookKeys : Head(hs)[k] # Undefined}) + HooksLength(Tail(hs))
RECURSIVE EntriesLength(_)
EntriesLength(arr) ==
    IF arr = << >> THEN 0
    ELSE 1 + (IF Head(arr).kind = "object" THEN 1 ELSE 0)
           + (IF Head(arr).hasHooks THEN 1 + HooksLength(Head(arr).hooks) ELSE 0)
           + EntriesLength(Tail(arr))
RECURSIVE KeysLength(_, _)
KeysLength(map, evs) ==
    IF evs = << >> THEN 0
    ELSE (IF map[Head(evs)].present THEN 1 + EntriesLength(map[Head(evs)].arr) ELSE 0)
         + KeysLength(map, Tail(evs))
TextLength(settings) ==
    1 + (IF settings.other = "none" THEN 0 ELSE 1)
      + (IF settings.hooks.present THEN 1 + KeysLength(settings.hooks.map, EventOrder) ELSE 0)
FileLength(content) ==
    CASE content.kind = "json" -> TextLength(JsonParse(content.doc))
      [] content.kind = "mix" -> TextLength(JsonParse(content.tail))
      [] OTHER -> 0

\* readFile + JSON.parse of what the path holds now: an empty text and a
\* text with something after its closing brace are not JSON.
ReadFile(content) == IF content.kind \in {"empty", "mix"} THEN Garbage ELSE content

\* open(path, 'w'): the file exists and is empty.
OpenTruncate(content) == Empty
\* write(fd, text) from position 0.
WriteText(content, settings) ==
    IF TextLength(settings) < FileLength(content)
    THEN Mixed(settings, JsonParse(IF content.kind = "mix" THEN content.tail ELSE content.doc))
    ELSE Json(settings)

Task(pc, op, settings, ok) == [pc |-> pc, op |-> op, settings |-> settings, ok |-> ok]
ReadBy(p, task) ==
    [proc EXCEPT !.tasks[p] = task,
                 !.bothRead = @ \/ (task.pc = "read" /\ proc.tasks[Other(p)].pc = "read")]

\* addHook('global', eventType, matcher, hook) up to its writeFile, lines
\* 270-308: the directory, the read, the document to write.
AddHookRead(p, eventType, matcher, hook) ==
    LET r == AddHookSettings(ReadFile(files["global"]), eventType, matcher, hook)
    IN  /\ calls < MaxCalls
        /\ proc.tasks[p].pc \in {"idle", "done"}
        /\ dirs' = [dirs EXCEPT !["global"] = TRUE]
        /\ proc' = ReadBy(p, IF r.throws THEN Task("done", "addHook", r.settings, FALSE)
                             ELSE Task("read", "addHook", r.settings, FALSE))
        /\ calls' = calls + 1
        /\ UNCHANGED <<perm, watch, ws, files, last, prev, orig, fs, view, out>>

\* deleteHook(configPath, eventType, matcherIndex, hookIndex) up to its
\* writeFile, lines 365-398.
DeleteHookRead(p, eventType, matcherIndex, hookIndex) ==
    LET content == ReadFile(files["global"])
        found == Addressed(content, eventType, matcherIndex, hookIndex) = "found"
    IN  /\ calls < MaxCalls
        /\ proc.tasks[p].pc \in {"idle", "done"}
        /\ proc' = ReadBy(p,
              IF found
              THEN Task("read", "deleteHook",
                        DeleteHookSettings(content, eventType, matcherIndex, hookIndex), FALSE)
              ELSE Task("done", "deleteHook", EmptySettings, FALSE))
        /\ calls' = calls + 1
        /\ UNCHANGED <<perm, watch, ws, files, dirs, last, prev, orig, fs, view, out>>

\* writeFile, first part: the open with flag 'w'.
WriteFileOpen(p) ==
    /\ proc.tasks[p].pc = "read"
    /\ files' = [files EXCEPT !["global"] = OpenTruncate(@)]
    /\ proc' = [proc EXCEPT !.tasks[p].pc = "open"]
    /\ UNCHANGED <<perm, watch, ws, dirs, last, prev, calls, orig, fs, view, out>>

\* writeFile, second part: the write and the close; the mutation returns true.
WriteFileWrite(p) ==
    /\ proc.tasks[p].pc = "open"
    /\ files' = [files EXCEPT !["global"] = WriteText(@, proc.tasks[p].settings)]
    /\ proc' = [proc EXCEPT !.tasks[p].pc = "done", !.tasks[p].ok = TRUE,
                            !.lastWriter = p]
    /\ UNCHANGED <<perm, watch, ws, dirs, last, prev, calls, orig, fs, view, out>>

InitRace ==
    /\ ws \in BOOLEAN
    /\ files \in [Scopes -> InitContents]
    /\ files["local"] = Absent
    /\ dirs = [sc \in Scopes |-> files[sc].kind # "absent"]
    /\ last = NoCall
    /\ prev = NoCall
    /\ calls = 0
    /\ orig = files
    /\ perm = NoPerm
    /\ watch = NoWatch
    /\ proc = NoProc
    /\ fs = BaseFs
    /\ view = EmptyBag
    /\ out = NoOut

NextRace ==
    \/ \E p \in Tasks, ev \in EventTypes, m \in Matchers, h \in HookInputs :
          AddHookRead(p, ev, m, h)
    \/ \E p \in Tasks, ev \in EventTypes :
          \E mi \in MatcherIndices("global", ev), hi \in HookIndices("global", ev) :
              DeleteHookRead(p, ev, mi, hi)
    \/ \E p \in Tasks : WriteFileOpen(p)
    \/ \E p \in Tasks : WriteFileWrite(p)

SpecRace == InitRace /\ [][NextRace]_vars

BothDone == \A p \in Tasks : proc.tasks[p].pc = "done" /\ proc.tasks[p].op # "none"

\* C20: hook mutations on one settings file are last-write-wins: when two
\* of them overlap, both having read before either writes, both report
\* success and the file ends as exactly the document of the one that wrote
\* last; at no moment does the file hold a mix of two documents.
C20_LastWriteWins ==
    /\ files["global"].kind # "mix"
    /\ proc.bothRead /\ BothDone =>
          /\ \A p \in Tasks : proc.tasks[p].ok
          /\ files["global"] = Json(proc.tasks[proc.lastWriter].settings)

====
